---- MODULE Spec2Model ----
(***************************************************************************)
(* Ledger and transfer engine of the wallet server.                        *)
(*                                                                         *)
(* The durable store is one SQLite database shared by every request        *)
(* goroutine.  A statement run on the pool (db.QueryRow, db.Exec) sees and *)
(* changes the committed tables.  A statement run inside a database        *)
(* transaction (tx.Exec) works on that transaction's uncommitted image,    *)
(* which other connections never see; SQLite grants the write lock of the  *)
(* whole database to one connection at a time, at its first write.         *)
(*                                                                         *)
(* Money is a float64 in the source; here it is an integer number of       *)
(* units.  The updated_at column is a logical timestamp: it advances on    *)
(* every UPDATE of the row.                                                *)
(***************************************************************************)
EXTENDS Integers, Sequences, FiniteSets, TLC

\* ---------------------------------------------------------------- bounds

\* number of request goroutines that may be in flight together
NumProcs == 2
\* request amounts range over -1 .. MaxAmount
MaxAmount == 1

\* number of goroutines that read the rate directory together
NumReaders == 1
\* number of 24-hour ticks the daily updater lives through
MaxTicks == 1

Procs == 1..NumProcs
Readers == 1..NumReaders
Amounts == (-1)..MaxAmount
Users == {1, 2}

\* ---------------------------------------------------------------- types

AssetTypes == {"cash", "debit", "saving", "investment"}
AccountTypes == AssetTypes \cup {"credit_card", "loan"}
TransactionTypes == {"deposit", "withdrawal", "expense", "payment"}

\* sql.NullFloat64: a nullable REAL column
Null == [Valid |-> FALSE, Float64 |-> 0]
\* a nullable INTEGER column that is NULL (transaction ids start at 1)
NullId == 0
\* the result of a lookup that matches no row (sql.ErrNoRows)
NoRow == [missing |-> TRUE]

NullFloat64(v) == [Valid |-> TRUE, Float64 |-> v]

Account(user, type, currency, balance, credit, loan) ==
    [user_id |-> user, type |-> type, currency |-> currency,
     current_balance |-> balance, credit_owed |-> credit,
     loan_current_owed |-> loan, updated_at |-> 0]

\* The account tables the runs start from: between them they hold every
\* account type as a source and as a destination of a transfer, a second
\* currency, a currency the rate service does not know, an account of
\* another user, a NULL owed column and a missing id.
TableA == <<Account(1, "cash", "USD", 0, Null, Null),
            Account(1, "saving", "USD", 5, Null, Null),
            Account(1, "credit_card", "EUR", 0, NullFloat64(3), Null)>>
TableB == <<Account(1, "debit", "USD", 4, Null, Null),
            Account(1, "loan", "USD", 0, Null, NullFloat64(6)),
            Account(2, "investment", "USD", 2, Null, Null)>>
TableC == <<Account(1, "investment", "JPY", 1, Null, Null),
            Account(1, "credit_card", "USD", 0, Null, Null),
            NoRow>>
TableD == <<Account(1, "debit", "USD", 3, Null, Null),
            Account(1, "investment", "USD", 7, Null, Null),
            NoRow>>
\* an empty cash account and a credit card on which nothing is owed
TableE == <<Account(1, "cash", "USD", 0, Null, Null),
            Account(1, "credit_card", "USD", 0, NullFloat64(0), Null),
            NoRow>>
Tables == {TableA, TableB, TableC, TableD, TableE}

AccountIds == 1..3

VARIABLES
    accounts,      \* committed accounts table: id -> row or NoRow
    transactions,  \* committed transactions table: a set of rows
    lastTxId,      \* committed AUTOINCREMENT sequence of transactions
    rates,         \* ExchangeService.rates, the in-memory directory
    writer,        \* the request whose db transaction holds the write lock, or 0
    pending,       \* the uncommitted image of the writer's db transaction
    pc,            \* where each request handler stands
    req,           \* the request each handler serves
    loc,           \* the handler's local variables
    resp,          \* the response each handler wrote
    body,          \* the JSON it carried: the error of jsonError, the
                   \* payload of Transfer (other payloads are left out)
    begun,         \* how many db transactions each handler has begun
    accounts0,     \* the accounts table as it was before any request
    exchange_rates, \* committed exchange_rates table: pair -> rate, updated_at
    updatedAt,     \* ExchangeService.updatedAt
    mu,            \* ExchangeService.mu: the writer flag and the reader count
    now,           \* the wall clock, in hours
    ticks,         \* how many ticks of the updater's ticker have fired
    svc,           \* the goroutine that runs Init and then the daily updater
    loaded,        \* the directory as the last finished load left it
    rpc,           \* where each reader of the directory stands
    ask,           \* the call each reader makes
    got,           \* what the call returned
    f64            \* a balance computed in float64: where the computation
                   \* stands, the balance at its start, the amount, the balance

ledgerVars == <<accounts, transactions, lastTxId, writer, pending,
                pc, req, loc, resp, body, begun, accounts0>>

\* the rate service apart from its directory
serviceVars == <<exchange_rates, updatedAt, mu, now, ticks, svc, loaded,
                 rpc, ask, got>>

vars == <<ledgerVars, rates, serviceVars, f64>>

NoTx == [none |-> TRUE]
NoReq == [op |-> "none"]
NoLoc == [none |-> TRUE]
NoResp == [status |-> 0, error |-> ""]
NoBody == [none |-> TRUE]

\* ---------------------------------------------------------------- models

\* src/internal/models/transaction.go
ValidTransactionTypesForAccount(accountType) ==
    CASE accountType \in AssetTypes -> {"deposit", "withdrawal"}
      [] accountType = "credit_card" -> {"expense", "payment"}
      [] accountType = "loan" -> {"payment"}
      [] OTHER -> {}

IsValidTransactionTypeNoLoan(txType, accountType) ==
    \/ txType \in ValidTransactionTypesForAccount(accountType)
    \/ accountType = "loan" /\ txType = "expense"

IsValidTransactionType(txType, accountType) ==
    txType \in ValidTransactionTypesForAccount(accountType)

\* ---------------------------------------------------------------- rates

\* A rate is the fraction num/den in lowest terms.  The amounts the model
\* converts are multiples of every denominator that occurs, so amount * rate
\* is a whole number.
RECURSIVE GCD(_, _)
GCD(a, b) == IF b = 0 THEN a ELSE GCD(b, a % b)

Fraction(n, d) ==
    IF n = 0 THEN [num |-> 0, den |-> 1]
    ELSE [num |-> n \div GCD(n, d), den |-> d \div GCD(n, d)]

\* r2 / r1
QuotientInverted(r1, r2) == Fraction(r2.num * r1.den, r2.den * r1.num)

\* rate1 / rate2
Quotient(r1, r2) == Fraction(r1.num * r2.den, r1.den * r2.num)

One == Fraction(1, 1)

\* time.Time{}, the zero time
ZeroTime == 0
\* 24 * time.Hour
Day == 24
\* the hour of the day at which the daily updater runs
AnchorHour == 6
\* the time at which the server starts: 5 AM of the fourth day
StartTime == 3 * Day + 5
\* the times at which the rate service of RateSpec starts: before, at and
\* after the hour of the updater
StartTimes == {StartTime, StartTime + 1, StartTime + 2}

supportedCurrencies == <<"USD", "DOP", "EUR">>

Supported == {supportedCurrencies[i] : i \in DOMAIN supportedCurrencies}

\* the currencies the callers name: the base currency, another supported
\* currency and a currency the service does not support
Currencies == {"USD", "EUR", "JPY"}

\* data.Rates of a successful answer of the provider: a partial map from
\* currency to the USD-based rate
Response(usd, dop, eur) ==
    [c \in {"USD", "DOP", "EUR", "JPY"} |->
        CASE c = "USD" -> usd [] c = "DOP" -> dop [] c = "EUR" -> eur
          [] OTHER -> 8]

\* the answers the provider gives: two with all three currencies (USD
\* against itself 1, and not 1), and one with USD against itself not 1,
\* without DOP and with EUR 0
Responses ==
    {Response(1, 4, 2), Response(2, 4, 2),
     [c \in {"USD", "EUR"} |-> IF c = "USD" THEN 2 ELSE 0]}

\* "Extract only the currencies we need"
Extract(data) ==
    [c \in Supported \cap DOMAIN data |-> Fraction(data[c], 1)]

\* GetRate without the answer for from == to
GetRateLooksUp(from, to) ==
    IF <<from, to>> \in DOMAIN rates
    THEN [rate |-> rates[<<from, to>>], ok |-> TRUE]
    ELSE [rate |-> [num |-> 0, den |-> 1], ok |-> FALSE]

\* GetRate that falls back on the inverse of the reverse pair
GetRateReverse(from, to) ==
    IF from = to THEN [rate |-> One, ok |-> TRUE]
    ELSE IF <<from, to>> \in DOMAIN rates
         THEN [rate |-> rates[<<from, to>>], ok |-> TRUE]
         ELSE IF <<to, from>> \in DOMAIN rates
         THEN [rate |-> Quotient(One, rates[<<to, from>>]), ok |-> TRUE]
         ELSE [rate |-> [num |-> 0, den |-> 1], ok |-> FALSE]

GetRate(from, to) ==
    IF from = to THEN [rate |-> [num |-> 1, den |-> 1], ok |-> TRUE]
    ELSE IF <<from, to>> \in DOMAIN rates
         THEN [rate |-> rates[<<from, to>>], ok |-> TRUE]
         ELSE [rate |-> [num |-> 0, den |-> 1], ok |-> FALSE]

ConvertIgnoresMiss(amount, from, to) ==
    LET r == GetRate(from, to)
    IN  [amount |-> (amount * r.rate.num) \div r.rate.den, err |-> FALSE]

Convert(amount, from, to) ==
    LET r == GetRate(from, to)
    IN  IF ~r.ok THEN [amount |-> 0, err |-> TRUE]
        ELSE [amount |-> (amount * r.rate.num) \div r.rate.den, err |-> FALSE]

\* a currency code as the string of its letters
Letters(c) ==
    CASE c = "USD" -> <<"U", "S", "D">>
      [] c = "DOP" -> <<"D", "O", "P">>
      [] c = "EUR" -> <<"E", "U", "R">>
      [] c = "JPY" -> <<"J", "P", "Y">>

\* the currency a string of letters names
Code(letters) ==
    CHOOSE c \in {"USD", "DOP", "EUR", "JPY"} : Letters(c) = letters

\* key := from + "_" + to, the key of s.rates
MapKey(from, to) == Letters(from) \o <<"_">> \o Letters(to)

\* s.rates as Go holds it: a map from key strings to rates
RatesByKey ==
    [key \in {MapKey(k[1], k[2]) : k \in DOMAIN rates} |->
        rates[CHOOSE k \in DOMAIN rates : MapKey(k[1], k[2]) = key]]

\* GetAllRates without the comparison of the key's first letters
GetAllRatesAnyBase(base) ==
    LET keys == {key \in DOMAIN RatesByKey : Len(key) > 4 /\ key[4] = "_"}
    IN  [base |-> base,
         rates |-> [target \in {Code(SubSeq(key, 5, Len(key))) : key \in keys} |->
                      RatesByKey[CHOOSE key \in keys :
                                    Code(SubSeq(key, 5, Len(key))) = target]],
         updated_at |-> updatedAt]

\* GetAllRates(base): for every key of s.rates with
\* len(key) > 4 && key[:3] == base && key[3] == '_', the rate under the
\* target key[4:]
GetAllRates(base) ==
    LET keys == {key \in DOMAIN RatesByKey :
                    /\ Len(key) > 4
                    /\ SubSeq(key, 1, 3) = Letters(base)
                    /\ key[4] = "_"}
    IN  [base |-> base,
         rates |-> [target \in {Code(SubSeq(key, 5, Len(key))) : key \in keys} |->
                      RatesByKey[CHOOSE key \in keys :
                                    Code(SubSeq(key, 5, Len(key))) = target]],
         updated_at |-> updatedAt]

\* upsertRate: INSERT ... ON CONFLICT(base_currency, target_currency) DO
\* UPDATE SET rate, updated_at; a new row takes the next id
upsertRate(table, base, target, rate, t) ==
    LET key == <<base, target>>
    IN  IF key \in DOMAIN table
        THEN [table EXCEPT ![key] = [@ EXCEPT !.rate = rate, !.updated_at = t]]
        ELSE [k \in DOMAIN table \cup {key} |->
                 IF k = key
                 THEN [id |-> Cardinality(DOMAIN table) + 1, rate |-> rate,
                       updated_at |-> t]
                 ELSE table[k]]

\* the upserts with the identity rates stored first
UpsertsIdentityFirst(data) ==
    LET rs == Extract(data)
        have == SelectSeq(supportedCurrencies, LAMBDA c : c \in DOMAIN rs)
        positive == SelectSeq(have, LAMBDA c : rs[c].num > 0)
        forward == [i \in 1..Len(have) |-> <<"USD", have[i], rs[have[i]]>>]
        reverse == [i \in 1..Len(positive) |->
                       <<positive[i], "USD", Quotient(One, rs[positive[i]])>>]
        dopToEur == IF rs["DOP"].num > 0
                    THEN <<<<"DOP", "EUR", Quotient(rs["EUR"], rs["DOP"])>>>>
                    ELSE <<>>
        eurToDop == IF rs["EUR"].num > 0
                    THEN <<<<"EUR", "DOP", Quotient(rs["DOP"], rs["EUR"])>>>>
                    ELSE <<>>
        cross == IF {"DOP", "EUR"} \subseteq DOMAIN rs
                 THEN dopToEur \o eurToDop ELSE <<>>
        identity == [i \in 1..Len(supportedCurrencies) |->
                        <<supportedCurrencies[i], supportedCurrencies[i], One>>]
    IN  identity \o forward \o reverse \o cross

\* the upserts of FetchAndStore in the order it runs them: USD -> each,
\* each -> USD where the rate is positive, the cross rates of DOP and EUR,
\* the identity rates.  (Go ranges over the map of extracted rates in any
\* order; the order within a group does not change the rows that result.)
Upserts(data) ==
    LET rs == Extract(data)
        have == SelectSeq(supportedCurrencies, LAMBDA c : c \in DOMAIN rs)
        positive == SelectSeq(have, LAMBDA c : rs[c].num > 0)
        forward == [i \in 1..Len(have) |-> <<"USD", have[i], rs[have[i]]>>]
        reverse == [i \in 1..Len(positive) |->
                       <<positive[i], "USD", Quotient(One, rs[positive[i]])>>]
        dopToEur == IF rs["DOP"].num > 0
                    THEN <<<<"DOP", "EUR", Quotient(rs["EUR"], rs["DOP"])>>>>
                    ELSE <<>>
        eurToDop == IF rs["EUR"].num > 0
                    THEN <<<<"EUR", "DOP", Quotient(rs["DOP"], rs["EUR"])>>>>
                    ELSE <<>>
        cross == IF {"DOP", "EUR"} \subseteq DOMAIN rs
                 THEN dopToEur \o eurToDop ELSE <<>>
        identity == [i \in 1..Len(supportedCurrencies) |->
                        <<supportedCurrencies[i], supportedCurrencies[i], One>>]
    IN  forward \o reverse \o cross \o identity

RECURSIVE upsertAll(_, _, _)
upsertAll(table, list, t) ==
    IF list = <<>> THEN table
    ELSE upsertAll(upsertRate(table, Head(list)[1], Head(list)[2],
                              Head(list)[3], t),
                   Tail(list), t)

\* the exchange_rates table after a FetchAndStore that committed
Stored(table, data, t) == upsertAll(table, Upserts(data), t)

NoRates == [k \in {} |-> One]

\* SELECT base_currency, target_currency, rate, updated_at FROM
\* exchange_rates: the keys of the rows in the order of their ids
Rows(table) ==
    [i \in 1..Cardinality(DOMAIN table) |->
        CHOOSE k \in DOMAIN table : table[k].id = i]

\* the directory and the latest update after the first n rows were scanned
Scanned(table, rows, n) ==
    [k \in {rows[i] : i \in 1..n} |-> table[k].rate]

LatestUpdate(table, rows, n) ==
    IF n = 0 THEN ZeroTime
    ELSE CHOOSE t \in {table[rows[i]].updated_at : i \in 1..n} :
            \A i \in 1..n : table[rows[i]].updated_at <= t

\* the table and the directory a server starts the ledger runs with: the
\* rates of one refresh that found USD -> EUR = 2
InitialTable ==
    Stored(NoRates, [c \in {"USD", "EUR"} |-> IF c = "USD" THEN 1 ELSE 2],
           StartTime)

InitialRates ==
    Scanned(InitialTable, Rows(InitialTable), Cardinality(DOMAIN InitialTable))

\* the table of one refresh to which the provider gave EUR as 0: USD -> EUR
\* is stored as 0, and EUR -> USD is not stored
ZeroRateTable ==
    Stored(NoRates, [c \in {"USD", "EUR"} |-> IF c = "USD" THEN 1 ELSE 0],
           StartTime)

\* ---------------------------------------------------------------- store

Committed == [accounts |-> accounts, transactions |-> transactions, seq |-> lastTxId]

\* the database image a statement of p's db transaction works on
Image(p) == IF writer = p THEN pending ELSE Committed

\* SELECT ... FROM accounts WHERE id = ? AND user_id = ?  (on the pool)
QueryAccountAnyUser(accountID, userID) ==
    accounts[accountID]

QueryAccount(accountID, userID) ==
    IF accounts[accountID] # NoRow /\ accounts[accountID].user_id = userID
    THEN accounts[accountID]
    ELSE NoRow

\* UPDATE accounts SET <column> = ?, updated_at = ? WHERE id = ?
\* (a missing row is no error: the statement changes nothing)
UpdateAccount(img, accountID, column, value) ==
    IF img.accounts[accountID] = NoRow THEN img
    ELSE [img EXCEPT !.accounts[accountID] =
             [@ EXCEPT ![column] = value, !.updated_at = @ + 1]]

\* a table without the foreign key on account_id
InsertAllowedAlways(img, accountID) == TRUE

\* INSERT INTO transactions: FOREIGN KEY (account_id) REFERENCES accounts(id)
InsertAllowed(img, accountID) == img.accounts[accountID] # NoRow

\* an INSERT with the amount bound to balance_after
InsertTransactionAmountAsBalance(img, accountID, txType, amount, balanceAfter) ==
    [img EXCEPT !.seq = @ + 1,
                !.transactions = @ \cup
                    {[id |-> img.seq + 1, account_id |-> accountID,
                      type |-> txType, amount |-> amount,
                      balance_after |-> amount,
                      linked_transaction_id |-> NullId]}]

InsertTransaction(img, accountID, txType, amount, balanceAfter) ==
    [img EXCEPT !.seq = @ + 1,
                !.transactions = @ \cup
                    {[id |-> img.seq + 1, account_id |-> accountID,
                      type |-> txType, amount |-> amount,
                      balance_after |-> balanceAfter,
                      linked_transaction_id |-> NullId]}]

\* UPDATE transactions SET linked_transaction_id = ? WHERE id = ?
LinkTransactionToSelf(img, linkedID, txID) ==
    [img EXCEPT !.transactions =
        {IF t.id = txID THEN [t EXCEPT !.linked_transaction_id = txID] ELSE t
         : t \in @}]

LinkTransaction(img, linkedID, txID) ==
    [img EXCEPT !.transactions =
        {IF t.id = txID THEN [t EXCEPT !.linked_transaction_id = linkedID] ELSE t
         : t \in @}]

\* ---------------------------------------------------------------- handlers

\* jsonError / jsonResponse followed by return
Reply(p, status, error) ==
    /\ pc' = [pc EXCEPT ![p] = "done"]
    /\ resp' = [resp EXCEPT ![p] = [status |-> status, error |-> error]]
    /\ body' = [body EXCEPT ![p] = IF error = "" THEN NoBody
                                               ELSE [error |-> error]]
    /\ loc' = [loc EXCEPT ![p] = NoLoc]

\* jsonResponse(w, payload, status) followed by return
Respond(p, status, payload) ==
    /\ pc' = [pc EXCEPT ![p] = "done"]
    /\ resp' = [resp EXCEPT ![p] = [status |-> status, error |-> ""]]
    /\ body' = [body EXCEPT ![p] = payload]
    /\ loc' = [loc EXCEPT ![p] = NoLoc]

Goto(p, label, locals) ==
    /\ pc' = [pc EXCEPT ![p] = label]
    /\ loc' = [loc EXCEPT ![p] = locals]
    /\ UNCHANGED <<resp, body>>

\* tx.Rollback(), deferred: it closes the db transaction, drops its
\* uncommitted image and gives the write lock back
RollbackKeepsWrites(p) ==
    IF writer = p
    THEN /\ accounts' = pending.accounts
         /\ transactions' = pending.transactions
         /\ lastTxId' = pending.seq
         /\ writer' = 0
         /\ pending' = NoTx
    ELSE UNCHANGED <<accounts, transactions, lastTxId, writer, pending>>

RollbackLeaksLock(p) ==
    UNCHANGED <<accounts, transactions, lastTxId, writer, pending>>

Rollback(p) ==
    /\ UNCHANGED <<accounts, transactions, lastTxId>>
    /\ writer' = IF writer = p THEN 0 ELSE writer
    /\ pending' = IF writer = p THEN NoTx ELSE pending

\* tx.Commit(): the image becomes the committed database
Commit(p) ==
    /\ writer = p
    /\ accounts' = pending.accounts
    /\ transactions' = pending.transactions
    /\ lastTxId' = pending.seq
    /\ writer' = 0
    /\ pending' = NoTx

\* tx.Exec of a writing statement: the first one takes the write lock,
\* which SQLite grants only while no other connection holds it
ExecOnPool(p, img) ==
    /\ writer \in {0, p}
    /\ writer' = p
    /\ pending' = img
    /\ accounts' = img.accounts
    /\ transactions' = img.transactions
    /\ lastTxId' = img.seq

Exec(p, img) ==
    /\ writer \in {0, p}
    /\ writer' = p
    /\ pending' = img
    /\ UNCHANGED <<accounts, transactions, lastTxId>>

\* a step of a db transaction failed: jsonError(500), return, deferred Rollback
TxFailedRetries(p, error) ==
    IF begun[p] = 1
    THEN /\ Rollback(p)
         /\ pc' = [pc EXCEPT ![p] = IF req[p].op = "create" THEN "c_begin" ELSE "t_begin"]
         /\ UNCHANGED <<resp, loc, body>>
    ELSE /\ Rollback(p)
         /\ Reply(p, 500, error)

TxFailed(p, error) ==
    /\ Rollback(p)
    /\ Reply(p, 500, error)

Owed(nf) == IF nf.Valid THEN nf.Float64 ELSE 0

PositiveAmountOrZero(amount) == amount >= 0

PositiveAmount(amount) == amount > 0

\* every balance kept in current_balance
BalanceColumnCurrent(accountType) == "current_balance"

\* the column that holds the balance of an account of this type
BalanceColumn(accountType) ==
    CASE accountType \in AssetTypes -> "current_balance"
      [] accountType = "credit_card" -> "credit_owed"
      [] accountType = "loan" -> "loan_current_owed"

\* the value bound to the UPDATE's first parameter
ColumnValue(column, v) ==
    IF column = "current_balance" THEN v ELSE NullFloat64(v)

\* the balance of a row, read through the column of its type
BalanceOf(account) ==
    CASE account.type \in AssetTypes -> account.current_balance
      [] account.type = "credit_card" -> Owed(account.credit_owed)
      [] account.type = "loan" -> Owed(account.loan_current_owed)

\* a new balance that is never below 0
NewBalanceFloored(account, txType, amount) ==
    LET new == CASE account.type \in AssetTypes ->
                       IF txType = "deposit" THEN account.current_balance + amount
                       ELSE account.current_balance - amount
                 [] account.type = "credit_card" ->
                       IF txType = "expense" THEN Owed(account.credit_owed) + amount
                       ELSE Owed(account.credit_owed) - amount
                 [] account.type = "loan" ->
                       Owed(account.loan_current_owed) - amount
    IN  IF new < 0 THEN 0 ELSE new

\* TransactionHandler.Create, "Calculate new balance"
NewBalancePaymentAdds(account, txType, amount) ==
    CASE account.type \in AssetTypes ->
            IF txType = "deposit" THEN account.current_balance + amount
            ELSE account.current_balance - amount
      [] account.type = "credit_card" ->
            Owed(account.credit_owed) + amount
      [] account.type = "loan" ->
            Owed(account.loan_current_owed) - amount

NewBalance(account, txType, amount) ==
    CASE account.type \in AssetTypes ->
            IF txType = "deposit" THEN account.current_balance + amount
            ELSE account.current_balance - amount
      [] account.type = "credit_card" ->
            IF txType = "expense" THEN Owed(account.credit_owed) + amount
            ELSE Owed(account.credit_owed) - amount
      [] account.type = "loan" ->
            Owed(account.loan_current_owed) - amount

\* ------------------------------------------------- TransactionHandler.Create

CreatePcs == {"c_begin", "c_update", "c_insert", "c_commit"}

CreateError(label) ==
    CASE label = "c_begin" -> "Failed to start transaction"
      [] label = "c_update" -> "Failed to update account balance"
      [] label = "c_insert" -> "Failed to create transaction"
      [] label = "c_commit" -> "Failed to commit transaction"

\* the account lookup and the validation of the request
CreateRequest(p) ==
    /\ pc[p] = "idle"
    /\ \E userID \in Users, accountID \in AccountIds,
          txType \in TransactionTypes, amount \in Amounts :
        LET account == QueryAccount(accountID, userID)
        IN  /\ req' = [req EXCEPT ![p] =
                    [op |-> "create", user_id |-> userID, account_id |-> accountID,
                     type |-> txType, amount |-> amount]]
            /\ IF account = NoRow
               THEN Reply(p, 404, "Account not found")
               ELSE IF ~IsValidTransactionType(txType, account.type)
               THEN Reply(p, 400, "Invalid transaction type for this account")
               ELSE IF ~PositiveAmount(amount)
               THEN Reply(p, 400, "Amount must be positive")
               ELSE Goto(p, "c_begin",
                         [account |-> account,
                          balanceAfter |-> NewBalance(account, txType, amount),
                          column |-> BalanceColumn(account.type),
                          transactionID |-> NullId])
    /\ UNCHANGED <<accounts, transactions, lastTxId, rates, writer, pending,
                   begun, accounts0>>
    /\ UNCHANGED <<serviceVars, f64>>

\* h.db.Begin()
CreateBegin(p) ==
    /\ pc[p] = "c_begin"
    /\ begun' = [begun EXCEPT ![p] = @ + 1]
    /\ Goto(p, "c_update", loc[p])
    /\ UNCHANGED <<accounts, transactions, lastTxId, rates, writer, pending,
                   req, accounts0>>
    /\ UNCHANGED <<serviceVars, f64>>

\* tx.Exec(updateQuery, updateValue, accountID)
CreateUpdateBalance(p) ==
    /\ pc[p] = "c_update"
    /\ Exec(p, UpdateAccount(Image(p), req[p].account_id, loc[p].column,
                             ColumnValue(loc[p].column, loc[p].balanceAfter)))
    /\ Goto(p, "c_insert", loc[p])
    /\ UNCHANGED <<rates, req, begun, accounts0>>
    /\ UNCHANGED <<serviceVars, f64>>

\* tx.Exec(INSERT INTO transactions ...)
CreateInsert(p) ==
    /\ pc[p] = "c_insert"
    /\ InsertAllowed(Image(p), req[p].account_id)
    /\ Exec(p, InsertTransaction(Image(p), req[p].account_id, req[p].type,
                                 req[p].amount, loc[p].balanceAfter))
    /\ Goto(p, "c_commit", [loc[p] EXCEPT !.transactionID = Image(p).seq + 1])
    /\ UNCHANGED <<rates, req, begun, accounts0>>
    /\ UNCHANGED <<serviceVars, f64>>

\* tx.Commit()
CreateCommit(p) ==
    /\ pc[p] = "c_commit"
    /\ Commit(p)
    /\ Goto(p, "c_fetch", loc[p])
    /\ UNCHANGED <<rates, req, begun, accounts0>>
    /\ UNCHANGED <<serviceVars, f64>>

\* "Fetch and return the created transaction"
CreateFetch(p) ==
    /\ pc[p] = "c_fetch"
    /\ IF \E t \in transactions : t.id = loc[p].transactionID
       THEN Reply(p, 201, "")
       ELSE Reply(p, 500, "Transaction created but failed to fetch")
    /\ UNCHANGED <<accounts, transactions, lastTxId, rates, writer, pending,
                   req, begun, accounts0>>
    /\ UNCHANGED <<serviceVars, f64>>

\* any step of the db transaction returns an error (storage error, the write
\* lock not granted within the busy timeout, a foreign key that fails)
CreateFail(p) ==
    /\ pc[p] \in CreatePcs
    /\ TxFailed(p, CreateError(pc[p]))
    /\ UNCHANGED <<rates, req, begun, accounts0>>
    /\ UNCHANGED <<serviceVars, f64>>

\* ----------------------------------------------- TransactionHandler.Transfer

TransferPcs == {"t_begin", "t_updateFrom", "t_updateTo", "t_insertFrom",
                "t_insertTo", "t_linkFrom", "t_linkTo", "t_commit"}

TransferError(label) ==
    CASE label = "t_begin" -> "Failed to start transaction"
      [] label = "t_updateFrom" -> "Failed to update source account"
      [] label = "t_updateTo" -> "Failed to update destination account"
      [] label = "t_insertFrom" -> "Failed to create source transaction"
      [] label = "t_insertTo" -> "Failed to create destination transaction"
      [] label \in {"t_linkFrom", "t_linkTo"} -> "Failed to link transactions"
      [] label = "t_commit" -> "Failed to commit transaction"

\* "Validate transfer direction": the types a source account may have
assetTypesAndCards == {"cash", "debit", "saving", "investment", "credit_card"}

assetTypes == {"cash", "debit", "saving", "investment"}

\* the types a destination account may have
validDestTypes == {"cash", "debit", "saving", "investment", "credit_card", "loan"}

\* req.FromAccountID == req.ToAccountID
SameAccountNever(from, to) == FALSE

SameAccount(from, to) == from = to

\* "Handle currency conversion": the amount the destination receives
ToAmountUnconverted(amount, fromAccount, toAccount) == amount

ToAmount(amount, fromAccount, toAccount) ==
    IF fromAccount.currency # toAccount.currency
    THEN Convert(amount, fromAccount.currency, toAccount.currency).amount
    ELSE amount

\* "Calculate new balances": the source's new balance
FromNewBalanceAdds(fromAccount, fromAmount) ==
    fromAccount.current_balance + fromAmount

FromNewBalance(fromAccount, fromAmount) ==
    fromAccount.current_balance - fromAmount

\* "Determine transaction types": the type of the destination leg
ToTxTypeExpense(accountType) ==
    IF accountType \in AssetTypes THEN "deposit" ELSE "expense"

ToTxType(accountType) ==
    IF accountType \in AssetTypes THEN "deposit" ELSE "payment"

\* a payment that adds to what is owed
ToNewBalanceAddsOwed(toAccount, toAmount) ==
    CASE toAccount.type \in AssetTypes -> toAccount.current_balance + toAmount
      [] toAccount.type = "credit_card" -> Owed(toAccount.credit_owed) + toAmount
      [] toAccount.type = "loan" -> Owed(toAccount.loan_current_owed) + toAmount

\* "Calculate new balances": the destination's new balance
ToNewBalance(toAccount, toAmount) ==
    CASE toAccount.type \in AssetTypes -> toAccount.current_balance + toAmount
      [] toAccount.type = "credit_card" -> Owed(toAccount.credit_owed) - toAmount
      [] toAccount.type = "loan" -> Owed(toAccount.loan_current_owed) - toAmount

\* the validation of the request and the lookup of the source account
TransferRequest(p) ==
    /\ pc[p] = "idle"
    /\ \E userID \in Users, from \in AccountIds, to \in AccountIds,
          amount \in Amounts :
        LET fromAccount == QueryAccount(from, userID)
        IN  /\ req' = [req EXCEPT ![p] =
                    [op |-> "transfer", user_id |-> userID, from_account_id |-> from,
                     to_account_id |-> to, amount |-> amount]]
            /\ IF ~PositiveAmount(amount)
               THEN Reply(p, 400, "Amount must be positive")
               ELSE IF SameAccount(from, to)
               THEN Reply(p, 400, "Cannot transfer to the same account")
               ELSE IF fromAccount = NoRow
               THEN Reply(p, 404, "Source account not found")
               ELSE Goto(p, "t_readTo", [fromAccount |-> fromAccount])
    /\ UNCHANGED <<accounts, transactions, lastTxId, rates, writer, pending,
                   begun, accounts0>>
    /\ UNCHANGED <<serviceVars, f64>>

\* the lookup of the destination, the direction check, the conversion and
\* the new balances
TransferReadTo(p) ==
    /\ pc[p] = "t_readTo"
    /\ LET fromAccount == loc[p].fromAccount
           toAccount == QueryAccount(req[p].to_account_id, req[p].user_id)
           converted == Convert(req[p].amount, fromAccount.currency, toAccount.currency)
           toAmount == ToAmount(req[p].amount, fromAccount, toAccount)
       IN  IF toAccount = NoRow
           THEN Reply(p, 404, "Destination account not found")
           ELSE IF fromAccount.type \notin assetTypes
           THEN Reply(p, 400, "Can only transfer from asset accounts (cash, debit, savings, investment)")
           ELSE IF toAccount.type \notin validDestTypes
           THEN Reply(p, 400, "Invalid destination account type")
           ELSE IF fromAccount.currency # toAccount.currency /\ converted.err
           THEN Reply(p, 500, "Failed to convert currency")
           ELSE Goto(p, "t_begin",
                     [fromAccount |-> fromAccount, toAccount |-> toAccount,
                      fromAmount |-> req[p].amount, toAmount |-> toAmount,
                      fromNewBalance |-> FromNewBalance(fromAccount, req[p].amount),
                      toNewBalance |-> ToNewBalance(toAccount, toAmount),
                      toColumn |-> BalanceColumn(toAccount.type),
                      fromTxID |-> NullId, toTxID |-> NullId])
    /\ UNCHANGED <<accounts, transactions, lastTxId, rates, writer, pending,
                   req, begun, accounts0>>
    /\ UNCHANGED <<serviceVars, f64>>

\* h.db.Begin()
TransferBegin(p) ==
    /\ pc[p] = "t_begin"
    /\ begun' = [begun EXCEPT ![p] = @ + 1]
    /\ Goto(p, "t_updateFrom", loc[p])
    /\ UNCHANGED <<accounts, transactions, lastTxId, rates, writer, pending,
                   req, accounts0>>
    /\ UNCHANGED <<serviceVars, f64>>

\* "Update source account (withdrawal)"
TransferUpdateSource(p) ==
    /\ pc[p] = "t_updateFrom"
    /\ Exec(p, UpdateAccount(Image(p), req[p].from_account_id, "current_balance",
                             loc[p].fromNewBalance))
    /\ Goto(p, "t_updateTo", loc[p])
    /\ UNCHANGED <<rates, req, begun, accounts0>>
    /\ UNCHANGED <<serviceVars, f64>>

\* "Update destination account"
TransferUpdateDest(p) ==
    /\ pc[p] = "t_updateTo"
    /\ Exec(p, UpdateAccount(Image(p), req[p].to_account_id, loc[p].toColumn,
                             ColumnValue(loc[p].toColumn, loc[p].toNewBalance)))
    /\ Goto(p, "t_insertFrom", loc[p])
    /\ UNCHANGED <<rates, req, begun, accounts0>>
    /\ UNCHANGED <<serviceVars, f64>>

\* "Insert withdrawal transaction (source)"
TransferInsertSource(p) ==
    /\ pc[p] = "t_insertFrom"
    /\ InsertAllowed(Image(p), req[p].from_account_id)
    /\ Exec(p, InsertTransaction(Image(p), req[p].from_account_id, "withdrawal",
                                 loc[p].fromAmount, loc[p].fromNewBalance))
    /\ Goto(p, "t_insertTo", [loc[p] EXCEPT !.fromTxID = Image(p).seq + 1])
    /\ UNCHANGED <<rates, req, begun, accounts0>>
    /\ UNCHANGED <<serviceVars, f64>>

\* "Insert deposit/payment transaction (destination)"
TransferInsertDest(p) ==
    /\ pc[p] = "t_insertTo"
    /\ InsertAllowed(Image(p), req[p].to_account_id)
    /\ Exec(p, InsertTransaction(Image(p), req[p].to_account_id,
                                 ToTxType(loc[p].toAccount.type),
                                 loc[p].toAmount, loc[p].toNewBalance))
    /\ Goto(p, "t_linkFrom", [loc[p] EXCEPT !.toTxID = Image(p).seq + 1])
    /\ UNCHANGED <<rates, req, begun, accounts0>>
    /\ UNCHANGED <<serviceVars, f64>>

\* "Link transactions": the source leg points at the destination leg
TransferLinkSource(p) ==
    /\ pc[p] = "t_linkFrom"
    /\ Exec(p, LinkTransaction(Image(p), loc[p].toTxID, loc[p].fromTxID))
    /\ Goto(p, "t_linkTo", loc[p])
    /\ UNCHANGED <<rates, req, begun, accounts0>>
    /\ UNCHANGED <<serviceVars, f64>>

\* the destination leg points at the source leg
TransferLinkDest(p) ==
    /\ pc[p] = "t_linkTo"
    /\ Exec(p, LinkTransaction(Image(p), loc[p].fromTxID, loc[p].toTxID))
    /\ Goto(p, "t_commit", loc[p])
    /\ UNCHANGED <<rates, req, begun, accounts0>>
    /\ UNCHANGED <<serviceVars, f64>>

\* a response that never reports the conversion
TransferResponseBare(request, l) ==
    [id |-> l.fromTxID, account_id |-> request.from_account_id,
     type |-> "withdrawal", amount |-> l.fromAmount,
     balance_after |-> l.fromNewBalance,
     linked_transaction_id |-> l.toTxID]

\* "Return the source transaction (withdrawal)", and "Include converted
\* amount info if cross-currency": the source leg alone, or a map of the
\* source leg, the converted amount and the destination's currency
TransferResponse(request, l) ==
    LET response == [id |-> l.fromTxID, account_id |-> request.from_account_id,
                     type |-> "withdrawal", amount |-> l.fromAmount,
                     balance_after |-> l.fromNewBalance,
                     linked_transaction_id |-> l.toTxID]
    IN  IF l.fromAccount.currency # l.toAccount.currency
        THEN [transaction |-> response, converted_amount |-> l.toAmount,
              to_currency |-> l.toAccount.currency]
        ELSE response

\* tx.Commit() and the response
TransferCommit(p) ==
    /\ pc[p] = "t_commit"
    /\ Commit(p)
    /\ Respond(p, 201, TransferResponse(req[p], loc[p]))
    /\ UNCHANGED <<rates, req, begun, accounts0>>
    /\ UNCHANGED <<serviceVars, f64>>

\* any step of the db transaction returns an error
TransferFail(p) ==
    /\ pc[p] \in TransferPcs
    /\ TxFailed(p, TransferError(pc[p]))
    /\ UNCHANGED <<rates, req, begun, accounts0>>
    /\ UNCHANGED <<serviceVars, f64>>

\* ---------------------------------------------------- AccountHandler.Delete

\* a cascade that also removes the rows linked to the rows of the account
CascadeLinked(accountID) ==
    {t \in transactions :
        \/ t.account_id = accountID
        \/ \E d \in transactions :
              d.account_id = accountID /\ d.linked_transaction_id = t.id}

\* the transactions a DELETE of the account removes (ON DELETE CASCADE)
Cascade(accountID) == {t \in transactions : t.account_id = accountID}

\* a table without the foreign key on linked_transaction_id
DeleteAllowedAlways(accountID) == TRUE

\* linked_transaction_id REFERENCES transactions(id): a row that is left
\* must not point at a row that is removed
DeleteAllowed(accountID) ==
    \A t \in transactions \ Cascade(accountID) :
        \A d \in Cascade(accountID) : t.linked_transaction_id # d.id

\* h.db.Exec("DELETE FROM accounts WHERE id = ? AND user_id = ?")
DeleteRequest(p) ==
    /\ pc[p] = "idle"
    /\ \E userID \in Users, accountID \in AccountIds :
        /\ req' = [req EXCEPT ![p] =
                [op |-> "delete", user_id |-> userID, account_id |-> accountID]]
        /\ IF writer # 0 \/ (QueryAccount(accountID, userID) # NoRow
                            /\ ~DeleteAllowed(accountID))
           THEN /\ Reply(p, 500, "Failed to delete account")
                /\ UNCHANGED <<accounts, transactions>>
           ELSE IF QueryAccount(accountID, userID) = NoRow
           THEN /\ Reply(p, 404, "Account not found")
                /\ UNCHANGED <<accounts, transactions>>
           ELSE /\ accounts' = [accounts EXCEPT ![accountID] = NoRow]
                /\ transactions' = transactions \ Cascade(accountID)
                /\ Reply(p, 200, "")
    /\ UNCHANGED <<lastTxId, rates, writer, pending, begun, accounts0>>
    /\ UNCHANGED <<serviceVars, f64>>

\* -------------------------------------------------- AccountHandler.Overview

\* what one row of the user adds to the totals: an asset its balance, a
\* credit card or a loan the amount owed when the column is not NULL
AssetsOfRow(row, userID) ==
    IF row # NoRow /\ row.user_id = userID /\ row.type \in AssetTypes
    THEN row.current_balance ELSE 0

LiabilitiesOfRow(row, userID) ==
    IF row = NoRow \/ row.user_id # userID THEN 0
    ELSE CASE row.type = "credit_card" /\ row.credit_owed.Valid ->
                  row.credit_owed.Float64
           [] row.type = "loan" /\ row.loan_current_owed.Valid ->
                  row.loan_current_owed.Float64
           [] OTHER -> 0

\* the totals over the rows of the user, and NetWorth = TotalAssets -
\* TotalLiabilities
Overview(table, userID) ==
    LET assets == AssetsOfRow(table[1], userID) + AssetsOfRow(table[2], userID)
                      + AssetsOfRow(table[3], userID)
        liabilities == LiabilitiesOfRow(table[1], userID)
                           + LiabilitiesOfRow(table[2], userID)
                           + LiabilitiesOfRow(table[3], userID)
    IN  [total_assets |-> assets, total_liabilities |-> liabilities,
         net_worth |-> assets - liabilities]

\* ---------------------------------------------------- AccountHandler.Update

\* the columns a request sets, as pairs <<column, value>>: none, the balance
\* of an asset account, or the amount owed on a credit card.  The handler can
\* also set name, color, currency, credit_limit, closing_date,
\* loan_current_owed, monthly_payment and yearly_interest_rate; requests that
\* set these are not among the inputs enumerated here.
UpdateSets ==
    {<<>>, <<<<"current_balance", 2>>>>, <<<<"credit_owed", NullFloat64(2)>>>>}

\* UPDATE accounts SET <columns>, updated_at = ? WHERE id = ? AND user_id = ?
\* (no matching row is no error: the statement changes nothing)
UpdateFields(table, accountID, userID, set) ==
    IF table[accountID] = NoRow \/ table[accountID].user_id # userID
    THEN table
    ELSE [table EXCEPT ![accountID] =
             [c \in DOMAIN @ |->
                 IF c = "updated_at" THEN @[c] + 1
                 ELSE IF \E i \in DOMAIN set : set[i][1] = c
                 THEN set[CHOOSE i \in DOMAIN set : set[i][1] = c][2]
                 ELSE @[c]]]

\* "Verify ownership", the decoding of the body and the building of the
\* statement
UpdateRequest(p) ==
    /\ pc[p] = "idle"
    /\ \E userID \in Users, accountID \in AccountIds, set \in UpdateSets :
        /\ req' = [req EXCEPT ![p] =
                [op |-> "update", user_id |-> userID, account_id |-> accountID,
                 set |-> set]]
        /\ IF QueryAccount(accountID, userID) = NoRow
           THEN Reply(p, 404, "Account not found")
           ELSE IF Len(set) = 0
           THEN Reply(p, 400, "No fields to update")
           ELSE Goto(p, "u_exec", NoLoc)
    /\ UNCHANGED <<accounts, transactions, lastTxId, rates, writer, pending,
                   begun, accounts0>>
    /\ UNCHANGED <<serviceVars, f64>>

\* h.db.Exec(query, args...): it fails while a db transaction of another
\* request holds the write lock
UpdateExec(p) ==
    /\ pc[p] = "u_exec"
    /\ IF writer # 0
       THEN /\ Reply(p, 500, "Failed to update account")
            /\ UNCHANGED accounts
       ELSE /\ accounts' = UpdateFields(accounts, req[p].account_id,
                                        req[p].user_id, req[p].set)
            /\ Goto(p, "u_fetch", NoLoc)
    /\ UNCHANGED <<transactions, lastTxId, rates, writer, pending, req,
                   begun, accounts0>>
    /\ UNCHANGED <<serviceVars, f64>>

\* "Fetch and return updated account"
UpdateFetch(p) ==
    /\ pc[p] = "u_fetch"
    /\ IF QueryAccount(req[p].account_id, req[p].user_id) = NoRow
       THEN Reply(p, 500, "Account updated but failed to fetch")
       ELSE Reply(p, 200, "")
    /\ UNCHANGED <<accounts, transactions, lastTxId, rates, writer, pending,
                   req, begun, accounts0>>
    /\ UNCHANGED <<serviceVars, f64>>

\* ------------------------------------------------------------ ExchangeService

\* the amounts the readers convert
ConvertAmounts == {4}

\* the exchange_rates table a server may find when it starts: empty, written
\* by a refresh just before, exactly 24 hours before or two days before, or
\* written two days before and in part again just before
InitialTables ==
    {NoRates,
     Stored(NoRates, Response(1, 4, 2), StartTime),
     Stored(NoRates, Response(1, 4, 2), StartTime - Day),
     Stored(NoRates, Response(1, 4, 2), ZeroTime + Day),
     Stored(Stored(NoRates, Response(1, 4, 2), ZeroTime + Day),
            [c \in {"USD", "EUR"} |-> IF c = "USD" THEN 2 ELSE 0], StartTime)}

NoService == [pc |-> "ready", caller |-> "updater", ret |-> "", err |-> FALSE,
              data |-> NoRates, rows |-> <<>>, n |-> 0]

NoAsk == [op |-> "none"]
NoAnswer == [none |-> TRUE]

\* s.mu.Lock(): granted while no goroutine holds the lock
LockGranted == ~mu.writer /\ mu.readers = 0

\* s.mu.RLock(): granted while no goroutine holds the write lock
RLockGrantedAlways == TRUE

RLockGranted == ~mu.writer

\* Init: "First try to load from DB"
InitLoad ==
    /\ svc.pc = "start"
    /\ svc' = [svc EXCEPT !.pc = "l_lock", !.ret = "i_check"]
    /\ UNCHANGED <<rates, exchange_rates, updatedAt, mu, now, ticks, loaded,
                   rpc, ask, got>>
    /\ UNCHANGED <<ledgerVars, f64>>

\* loadRatesFromDB: s.mu.Lock()
LoadLock ==
    /\ svc.pc = "l_lock"
    /\ LockGranted
    /\ mu' = [mu EXCEPT !.writer = TRUE]
    /\ svc' = [svc EXCEPT !.pc = "l_query"]
    /\ UNCHANGED <<rates, exchange_rates, updatedAt, now, ticks, loaded,
                   rpc, ask, got>>
    /\ UNCHANGED <<ledgerVars, f64>>

\* s.db.Query: the rows, or an error that ends the load with the directory
\* as it was (the deferred Unlock runs)
LoadQuery ==
    /\ svc.pc = "l_query"
    /\ \/ /\ svc' = [svc EXCEPT !.pc = "l_clear", !.rows = Rows(exchange_rates)]
          /\ UNCHANGED mu
       \/ /\ svc' = [svc EXCEPT !.pc = svc.ret]
          /\ mu' = [mu EXCEPT !.writer = FALSE]
    /\ UNCHANGED <<rates, exchange_rates, updatedAt, now, ticks, loaded,
                   rpc, ask, got>>
    /\ UNCHANGED <<ledgerVars, f64>>

\* s.rates = make(map[string]float64)
LoadClear ==
    /\ svc.pc = "l_clear"
    /\ rates' = NoRates
    /\ svc' = [svc EXCEPT !.pc = "l_scan", !.n = 0]
    /\ UNCHANGED <<exchange_rates, updatedAt, mu, now, ticks, loaded,
                   rpc, ask, got>>
    /\ UNCHANGED <<ledgerVars, f64>>

\* one turn of "for rows.Next()": s.rates[key] = rate. rows.Scan reads
\* TEXT, TEXT, REAL NOT NULL and the CURRENT_TIMESTAMP of upsertRate into
\* string, string, float64 and time.Time, so no row is skipped
LoadScan ==
    /\ svc.pc = "l_scan"
    /\ svc.n < Len(svc.rows)
    /\ rates' = Scanned(exchange_rates, svc.rows, svc.n + 1)
    /\ svc' = [svc EXCEPT !.n = @ + 1]
    /\ UNCHANGED <<exchange_rates, updatedAt, mu, now, ticks, loaded,
                   rpc, ask, got>>
    /\ UNCHANGED <<ledgerVars, f64>>

\* s.updatedAt = latestUpdate, and the deferred s.mu.Unlock()
LoadUnlock ==
    /\ svc.pc = "l_scan"
    /\ svc.n = Len(svc.rows)
    /\ updatedAt' = LatestUpdate(exchange_rates, svc.rows, svc.n)
    /\ mu' = [mu EXCEPT !.writer = FALSE]
    /\ loaded' = rates
    /\ svc' = [svc EXCEPT !.pc = svc.ret, !.rows = <<>>, !.n = 0]
    /\ UNCHANGED <<rates, exchange_rates, now, ticks, rpc, ask, got>>
    /\ UNCHANGED <<ledgerVars, f64>>

\* the check of Init that also fetches at an age of exactly 24 hours
NeedsFetchAtDay == Cardinality(DOMAIN rates) = 0 \/ now - updatedAt >= Day

\* len(s.rates) == 0 || time.Since(s.updatedAt) > 24*time.Hour
NeedsFetch == Cardinality(DOMAIN rates) = 0 \/ now - updatedAt > Day

\* Init: "If no rates in DB or rates are older than 24 hours, fetch new ones"
InitCheck ==
    /\ svc.pc = "i_check"
    /\ svc' = [svc EXCEPT !.pc = IF NeedsFetch THEN "f_fetch" ELSE "ready"]
    /\ UNCHANGED <<rates, exchange_rates, updatedAt, mu, now, ticks, loaded,
                   rpc, ask, got>>
    /\ UNCHANGED <<ledgerVars, f64>>

\* FetchAndStore: the call of the provider, which answers with rates or
\* fails (no answer, a status other than 200, a body that does not decode,
\* a result other than "success")
Fetch ==
    /\ svc.pc = "f_fetch"
    /\ \/ \E data \in Responses :
             svc' = [svc EXCEPT !.pc = "f_store", !.data = data, !.err = FALSE]
       \/ svc' = [svc EXCEPT !.pc = "f_done", !.err = TRUE]
    /\ UNCHANGED <<rates, exchange_rates, updatedAt, mu, now, ticks, loaded,
                   rpc, ask, got>>
    /\ UNCHANGED <<ledgerVars, f64>>

\* a failed transaction that leaves its first upsert in the table
StoreFailedKeepsUpsert(table, data, t) ==
    upsertAll(table, SubSeq(Upserts(data), 1, 1), t)

\* defer tx.Rollback(): the table after s.db.Begin, an upsert or tx.Commit
\* failed
StoreFailed(table, data, t) == table

\* FetchAndStore: the db transaction of the upserts commits, and the
\* directory is loaded again; or a step of it fails and it is rolled back
Store ==
    /\ svc.pc = "f_store"
    /\ \/ /\ exchange_rates' = Stored(exchange_rates, svc.data, now)
          /\ svc' = [svc EXCEPT !.pc = "l_lock", !.ret = "f_done"]
       \/ /\ svc' = [svc EXCEPT !.pc = "f_done", !.err = TRUE]
          /\ exchange_rates' = StoreFailed(exchange_rates, svc.data, now)
    /\ UNCHANGED <<rates, updatedAt, mu, now, ticks, loaded, rpc, ask, got>>
    /\ UNCHANGED <<ledgerVars, f64>>

\* FetchAndStore returns: to Init, which fails only when the refresh failed
\* and no rate is loaded, or to the loop of the updater
FetchDone ==
    /\ svc.pc = "f_done"
    /\ svc' = [svc EXCEPT !.pc =
                  IF svc.caller = "updater" THEN "u_wait"
                  ELSE IF svc.err /\ Cardinality(DOMAIN rates) = 0 THEN "failed"
                  ELSE "ready",
                           !.data = NoRates]
    /\ UNCHANGED <<rates, exchange_rates, updatedAt, mu, now, ticks, loaded,
                   rpc, ask, got>>
    /\ UNCHANGED <<ledgerVars, f64>>

\* a computation that never moves on to the next day
NextAnchorToday(t) == t - (t % Day) + AnchorHour

\* StartDailyUpdater: "Calculate time until next 6 AM"; a time that is not
\* in the future ends the sleep at once
NextAnchor(t) ==
    LET next == t - (t % Day) + AnchorHour
    IN  IF t > next THEN next + Day ELSE next

\* StartDailyUpdater: the sleep until the next 6 AM and the first refresh
UpdaterStart ==
    /\ svc.pc = "ready"
    /\ now' = NextAnchor(now)
    /\ svc' = [svc EXCEPT !.pc = "f_fetch", !.caller = "updater", !.err = FALSE]
    /\ UNCHANGED <<rates, exchange_rates, updatedAt, mu, ticks, loaded,
                   rpc, ask, got>>
    /\ UNCHANGED <<ledgerVars, f64>>

\* <-ticker.C and the next turn of the loop
UpdaterTick ==
    /\ svc.pc = "u_wait"
    /\ ticks < MaxTicks
    /\ ticks' = ticks + 1
    /\ now' = now + Day
    /\ svc' = [svc EXCEPT !.pc = "f_fetch", !.err = FALSE]
    /\ UNCHANGED <<rates, exchange_rates, updatedAt, mu, loaded, rpc, ask, got>>
    /\ UNCHANGED <<ledgerVars, f64>>

\* a goroutine calls Convert or GetAllRates; GetRate answers from == to
\* before it takes the lock
ReadCall(r) ==
    /\ rpc[r] = "idle"
    /\ \E call \in
          [op : {"convert"}, amount : ConvertAmounts, from : Currencies,
           to : Currencies] \cup [op : {"getAll"}, base : Currencies] :
        /\ ask' = [ask EXCEPT ![r] = call]
        /\ IF call.op = "convert" /\ call.from = call.to
           THEN /\ got' = [got EXCEPT ![r] =
                          Convert(call.amount, call.from, call.to)]
                /\ rpc' = [rpc EXCEPT ![r] = "done"]
           ELSE /\ rpc' = [rpc EXCEPT ![r] = "r_rlock"]
                /\ UNCHANGED got
    /\ UNCHANGED <<rates, exchange_rates, updatedAt, mu, now, ticks, svc, loaded>>
    /\ UNCHANGED <<ledgerVars, f64>>

\* s.mu.RLock()
ReadRLock(r) ==
    /\ rpc[r] = "r_rlock"
    /\ RLockGranted
    /\ mu' = [mu EXCEPT !.readers = @ + 1]
    /\ rpc' = [rpc EXCEPT ![r] = "r_read"]
    /\ UNCHANGED <<rates, exchange_rates, updatedAt, now, ticks, svc, loaded,
                   ask, got>>
    /\ UNCHANGED <<ledgerVars, f64>>

\* the read of s.rates, the deferred s.mu.RUnlock() and the return
ReadReturn(r) ==
    /\ rpc[r] = "r_read"
    /\ got' = [got EXCEPT ![r] =
                  IF ask[r].op = "convert"
                  THEN Convert(ask[r].amount, ask[r].from, ask[r].to)
                  ELSE GetAllRates(ask[r].base)]
    /\ mu' = [mu EXCEPT !.readers = @ - 1]
    /\ rpc' = [rpc EXCEPT ![r] = "done"]
    /\ UNCHANGED <<rates, exchange_rates, updatedAt, now, ticks, svc, loaded, ask>>
    /\ UNCHANGED <<ledgerVars, f64>>

\* ------------------------------------------------------------------ float64

\* Balances and amounts are float64 (models.Account.CurrentBalance,
\* CreateTransactionRequest.Amount).  A float64 that is a whole number >= 0
\* is written here in binary, lowest bit first, without leading zeros; a sum
\* or a difference of two of them is the exact result rounded to the 53
\* significant bits of a float64, ties to even (IEEE 754, as Go computes).
MantissaBits == 53

\* the binary digits of a natural number
RECURSIVE FromNat(_)
FromNat(n) == IF n = 0 THEN <<>> ELSE <<n % 2>> \o FromNat(n \div 2)

\* 2^k
Pow2(k) == [i \in 1..(k + 1) |-> IF i = k + 1 THEN 1 ELSE 0]

Rest(x) == IF x = <<>> THEN <<>> ELSE Tail(x)
Low(x) == IF x = <<>> THEN 0 ELSE Head(x)

RECURSIVE Normalize(_)
Normalize(x) ==
    IF x = <<>> THEN x
    ELSE IF x[Len(x)] = 0 THEN Normalize(SubSeq(x, 1, Len(x) - 1))
    ELSE x

\* the exact sum x + y + carry
RECURSIVE AddBits(_, _, _)
AddBits(x, y, carry) ==
    IF x = <<>> /\ y = <<>>
    THEN IF carry = 1 THEN <<1>> ELSE <<>>
    ELSE LET sum == Low(x) + Low(y) + carry
         IN  <<sum % 2>> \o AddBits(Rest(x), Rest(y), sum \div 2)

\* the exact difference x - y - borrow, for x >= y + borrow
RECURSIVE SubBits(_, _, _)
SubBits(x, y, borrow) ==
    IF x = <<>> THEN <<>>
    ELSE LET d == Low(x) - Low(y) - borrow
         IN  IF d < 0
             THEN <<d + 2>> \o SubBits(Rest(x), Rest(y), 1)
             ELSE <<d>> \o SubBits(Rest(x), Rest(y), 0)

\* the float64 nearest to x: the highest MantissaBits bits of x, one added
\* when the bits dropped are more than half of the last bit kept, or are
\* half of it and the last bit kept is 1
Round(x) ==
    IF Len(x) <= MantissaBits THEN x
    ELSE LET dropped == Len(x) - MantissaBits
             kept == SubSeq(x, dropped + 1, Len(x))
             half == x[dropped] = 1
             more == \E i \in 1..(dropped - 1) : x[i] = 1
             up == half /\ (more \/ kept[1] = 1)
         IN  [i \in 1..dropped |-> 0] \o
                 (IF up THEN AddBits(kept, <<1>>, 0) ELSE kept)

\* currentBalance + req.Amount
Float64Add(x, y) == Round(AddBits(x, y, 0))

\* currentBalance - req.Amount, for currentBalance >= req.Amount
Float64Sub(x, y) == Round(Normalize(SubBits(x, y, 0)))

\* the largest whole balance and the largest power of two among the amounts
MaxFloatBalance == 5
MaxFloatExponent == 55

\* balances of asset accounts, and amounts > 0: small ones, and large ones
\* around 2^53
FloatBalances == {FromNat(n) : n \in 0..MaxFloatBalance}
FloatAmounts ==
    {FromNat(n) : n \in 1..3} \cup {Pow2(k) : k \in 50..MaxFloatExponent}

NoFloat == [pc |-> "none"]

\* Create with type deposit on an asset account:
\* balanceAfter = currentBalance + req.Amount
FloatDeposit ==
    /\ f64.pc = "start"
    /\ f64' = [f64 EXCEPT !.pc = "deposited",
                          !.balance = Float64Add(f64.balance, f64.amount)]
    /\ UNCHANGED <<ledgerVars, rates, serviceVars>>

\* the next Create on the account, with type withdrawal and the same amount:
\* balanceAfter = currentBalance - req.Amount.  (The balance after the
\* deposit is not below the amount, because rounding keeps the order.)
FloatWithdrawal ==
    /\ f64.pc = "deposited"
    /\ f64' = [f64 EXCEPT !.pc = "withdrawn",
                          !.balance = Float64Sub(f64.balance, f64.amount)]
    /\ UNCHANGED <<ledgerVars, rates, serviceVars>>

\* ---------------------------------------------------------------- system

\* the ledger before any request
InitLedger(tables) ==
    /\ \E table \in tables :
        /\ accounts = [id \in AccountIds |-> table[id]]
        /\ accounts0 = [id \in AccountIds |-> table[id]]
    /\ transactions = {}
    /\ lastTxId = 0
    /\ writer = 0
    /\ pending = NoTx
    /\ pc = [p \in Procs |-> "idle"]
    /\ req = [p \in Procs |-> NoReq]
    /\ loc = [p \in Procs |-> NoLoc]
    /\ resp = [p \in Procs |-> NoResp]
    /\ body = [p \in Procs |-> NoBody]
    /\ begun = [p \in Procs |-> 0]

\* the readers of the directory before any call
InitReadersAt(t) ==
    /\ mu = [writer |-> FALSE, readers |-> 0]
    /\ now = t
    /\ ticks = 0
    /\ rpc = [r \in Readers |-> "idle"]
    /\ ask = [r \in Readers |-> NoAsk]
    /\ got = [r \in Readers |-> NoAnswer]

InitReaders == InitReadersAt(StartTime)

\* the rate service is ready with the rows of the table loaded
InitRates(table) ==
    /\ exchange_rates = table
    /\ rates = Scanned(table, Rows(table), Cardinality(DOMAIN table))
    /\ loaded = rates
    /\ updatedAt = StartTime
    /\ svc = NoService

\* The ledger runs: the rate service is ready with the rates of one refresh
\* and stays as it is.  The refresh found USD -> EUR = 2 or, for the
\* accounts of TableA, USD -> EUR = 0.
Init ==
    /\ InitReaders
    /\ f64 = NoFloat
    /\ \/ InitLedger(Tables) /\ InitRates(InitialTable)
       \/ InitLedger({TableA}) /\ InitRates(ZeroRateTable)

Step(p) ==
    \/ CreateRequest(p)
    \/ CreateBegin(p)
    \/ CreateUpdateBalance(p)
    \/ CreateInsert(p)
    \/ CreateCommit(p)
    \/ CreateFetch(p)
    \/ CreateFail(p)
    \/ TransferRequest(p)
    \/ TransferReadTo(p)
    \/ TransferBegin(p)
    \/ TransferUpdateSource(p)
    \/ TransferUpdateDest(p)
    \/ TransferInsertSource(p)
    \/ TransferInsertDest(p)
    \/ TransferLinkSource(p)
    \/ TransferLinkDest(p)
    \/ TransferCommit(p)
    \/ TransferFail(p)
    \/ DeleteRequest(p)
    \/ UpdateRequest(p)
    \/ UpdateExec(p)
    \/ UpdateFetch(p)

Next == \E p \in Procs : Step(p)

Spec == Init /\ [][Next]_vars

\* The rate service runs: NewExchangeService has made an empty directory,
\* Init and then the daily updater run in one goroutine, and the readers
\* call Convert and GetAllRates at any time.  The ledger stays as it is.
RateInit ==
    /\ f64 = NoFloat
    /\ InitLedger({TableA})
    /\ \E t \in StartTimes : InitReadersAt(t)
    /\ exchange_rates \in InitialTables
    /\ rates = NoRates
    /\ loaded = NoRates
    /\ updatedAt = ZeroTime
    /\ svc = [NoService EXCEPT !.pc = "start", !.caller = "init"]

ServiceStep ==
    \/ InitLoad
    \/ LoadLock
    \/ LoadQuery
    \/ LoadClear
    \/ LoadScan
    \/ LoadUnlock
    \/ InitCheck
    \/ Fetch
    \/ Store
    \/ FetchDone
    \/ UpdaterStart
    \/ UpdaterTick

ReadStep(r) ==
    \/ ReadCall(r)
    \/ ReadRLock(r)
    \/ ReadReturn(r)

RateNext == ServiceStep \/ \E r \in Readers : ReadStep(r)

RateSpec == RateInit /\ [][RateNext]_vars

\* A Deposit and then a Withdrawal of the same amount on one asset account,
\* with nothing else done to the account: the two balance computations of
\* Create, in float64.  The ledger and the rate service stay as they are.
FloatInit ==
    /\ InitReaders
    /\ InitLedger({TableA}) /\ InitRates(InitialTable)
    /\ \E balance \in FloatBalances, amount \in FloatAmounts :
          f64 = [pc |-> "start", balance0 |-> balance, amount |-> amount,
                 balance |-> balance]

FloatNext == FloatDeposit \/ FloatWithdrawal

FloatSpec == FloatInit /\ [][FloatNext]_vars

\* ---------------------------------------------------------------- claims

AllDone == \A p \in Procs : pc[p] = "done"

RowsOf(table, accountID) == {t \in table : t.account_id = accountID}

\* the step is taken by request p
StepOf(p) == pc'[p] # pc[p]

\* the balance columns of the committed accounts
Balances(table) ==
    [id \in AccountIds |->
        IF table[id] = NoRow THEN NoRow
        ELSE [current_balance |-> table[id].current_balance,
              credit_owed |-> table[id].credit_owed,
              loan_current_owed |-> table[id].loan_current_owed]]

\* C1: N concurrent Deposit(1) requests on one asset account whose balance is
\* 0 leave the balance equal to the number of deposits that committed.
C1_NoLostDeposit ==
    \A a \in AccountIds :
        ( /\ AllDone
          /\ accounts0[a] # NoRow
          /\ accounts0[a].type \in AssetTypes
          /\ accounts0[a].current_balance = 0
          /\ \A p \in Procs :
                req[p] = [op |-> "create", user_id |-> accounts0[a].user_id,
                          account_id |-> a, type |-> "deposit", amount |-> 1] )
        => accounts[a].current_balance = Cardinality(RowsOf(transactions, a))

\* what a committed request does to the accounts table when it runs alone
SerialApply(table, r) ==
    IF r.op = "create"
    THEN LET account == table[r.account_id]
             column == BalanceColumn(account.type)
         IN  [table EXCEPT ![r.account_id][column] =
                 ColumnValue(column, NewBalance(account, r.type, r.amount))]
    ELSE LET fromAccount == table[r.from_account_id]
             toAccount == table[r.to_account_id]
             toAmount == Convert(r.amount, fromAccount.currency, toAccount.currency).amount
             toColumn == BalanceColumn(toAccount.type)
         IN  [table EXCEPT
                 ![r.from_account_id].current_balance = @ - r.amount,
                 ![r.to_account_id][toColumn] =
                     ColumnValue(toColumn, ToNewBalance(toAccount, toAmount))]

RECURSIVE SerialResults(_, _)
\* the tables the requests of S produce in the serial orders of S
SerialResults(table, S) ==
    IF S = {} THEN {table}
    ELSE UNION {SerialResults(SerialApply(table, req[p]), S \ {p}) : p \in S}

CommittedOps ==
    {p \in Procs : req[p].op \in {"create", "transfer"} /\ resp[p].status = 201}

\* C2: when a transfer and other balance-changing requests have committed,
\* the balances are those of some serial order of the committed requests.
C2_TransferSerializable ==
    ( /\ AllDone
      /\ \A p \in Procs : req[p].op \in {"create", "transfer"}
      /\ \E p \in CommittedOps : req[p].op = "transfer" )
    => Balances(accounts) \in
          {Balances(t) : t \in SerialResults(accounts0, CommittedOps)}

\* C3: every step of a create-transaction either leaves the committed
\* tables as they are, or is the commit that advances the account's row and
\* adds the one transaction row together; a reported failure changes nothing.
CreateStepAtomic(p) ==
    (pc[p] \in CreatePcs /\ StepOf(p)) =>
        \/ accounts' = accounts /\ transactions' = transactions
        \/ /\ pc'[p] = "c_fetch"
           /\ \E t \in transactions' \ transactions :
                /\ transactions' = transactions \cup {t}
                /\ t.account_id = req[p].account_id
                /\ accounts'[t.account_id].updated_at =
                       accounts[t.account_id].updated_at + 1
                /\ BalanceOf(accounts'[t.account_id]) = t.balance_after
                /\ \A b \in AccountIds \ {t.account_id} : accounts'[b] = accounts[b]

C3_CreateAtomic == [][\A p \in Procs : CreateStepAtomic(p)]_vars

\* a create-transaction failed after its balance update had run
C3_Witness ==
    \E p \in Procs :
        /\ req[p].op = "create"
        /\ resp[p].error \in {"Failed to create transaction",
                              "Failed to commit transaction"}
        /\ accounts = accounts0
        /\ transactions = {}

\* C4: every step of a transfer either leaves the committed tables as they
\* are, or is the commit that persists both balance updates, both rows and
\* both links together.
TransferStepAtomic(p) ==
    (pc[p] \in TransferPcs /\ StepOf(p)) =>
        \/ accounts' = accounts /\ transactions' = transactions
        \/ /\ pc'[p] = "done"
           /\ resp'[p].status = 201
           /\ \E s, d \in transactions' \ transactions :
                /\ transactions' = transactions \cup {s, d}
                /\ s.account_id = req[p].from_account_id
                /\ d.account_id = req[p].to_account_id
                /\ s.linked_transaction_id = d.id
                /\ d.linked_transaction_id = s.id
                /\ s.id # d.id
                /\ \A t \in {s, d} :
                     /\ accounts'[t.account_id].updated_at =
                            accounts[t.account_id].updated_at + 1
                     /\ BalanceOf(accounts'[t.account_id]) = t.balance_after
                /\ \A b \in AccountIds \ {s.account_id, d.account_id} :
                     accounts'[b] = accounts[b]

C4_TransferAtomic == [][\A p \in Procs : TransferStepAtomic(p)]_vars

\* a transfer failed after both balance updates and both inserts had run
C4_Witness ==
    \E p \in Procs :
        /\ req[p].op = "transfer"
        /\ resp[p].error \in {"Failed to link transactions",
                              "Failed to commit transaction"}
        /\ accounts = accounts0
        /\ transactions = {}

\* the balance the claim's table gives for a transaction of this type on an
\* account of this type whose balance was old
TableBalance(accountType, txType, old, amount) ==
    CASE accountType \in {"cash", "debit", "saving", "investment"}
            /\ txType = "deposit" -> old + amount
      [] accountType = "credit_card" /\ txType = "expense" -> old + amount
      [] accountType \in {"cash", "debit", "saving", "investment"}
            /\ txType = "withdrawal" -> old - amount
      [] accountType \in {"credit_card", "loan"} /\ txType = "payment" -> old - amount

\* C5: the commit of a create-transaction stores, in the balance column of
\* the account's type, the balance the request loaded plus the amount
\* (Deposit on asset accounts, Expense on CreditCard) or minus the amount
\* (Withdrawal on asset accounts, Payment on CreditCard and Loan), and the
\* new row's balanceAfter is that stored value.
CreateCommitStores(p) ==
    (pc[p] = "c_commit" /\ pc'[p] = "c_fetch") =>
        LET a == req[p].account_id
            old == BalanceOf(loc[p].account)
        IN  /\ BalanceOf(accounts'[a]) =
                  TableBalance(accounts'[a].type, req[p].type, old, req[p].amount)
            /\ \E t \in transactions' \ transactions :
                  /\ t.account_id = a
                  /\ t.balance_after = BalanceOf(accounts'[a])

C5_CreateBalance == [][\A p \in Procs : CreateCommitStores(p)]_vars

\* a Payment on a credit card and a Deposit have both committed
C5_Witness ==
    \E p, q \in Procs :
        /\ req[p].op = "create" /\ req[p].type = "payment" /\ resp[p].status = 201
        /\ accounts0[req[p].account_id].type = "credit_card"
        /\ req[q].op = "create" /\ req[q].type = "deposit" /\ resp[q].status = 201

\* the errors of a step of the db transaction, after validation passed
WriteErrors ==
    {CreateError(l) : l \in CreatePcs \ {"c_begin"}}
        \cup {TransferError(l) : l \in TransferPcs \ {"t_begin"}}

\* C6 as stated: a failure of the atomic write is reported only after the
\* operation was tried a second time.
C6_RetriedOnce ==
    \A p \in Procs : resp[p].error \in WriteErrors => begun[p] = 2

\* C6 as amended: a request begins at most one db transaction, and a failure
\* of a step of it is reported at once, with the db transaction closed.
C6_NoRetry ==
    \A p \in Procs :
        /\ begun[p] <= 1
        /\ resp[p].error \in WriteErrors => (begun[p] = 1 /\ writer # p)

\* a commit failed and was reported
C6_Witness ==
    \E p \in Procs :
        /\ resp[p].error = "Failed to commit transaction"
        /\ resp[p].status = 500
        /\ begun[p] = 1

\* Every statement of a handler returns: with its result, or with an error
\* once the busy timeout of the driver has run out.
\* The runs start from the tables in which two asset accounts of one user
\* can send to each other.
FairTables == {TableA, TableD}

FairInit ==
    /\ InitReaders
    /\ f64 = NoFloat
    /\ InitLedger(FairTables)
    /\ InitRates(InitialTable)

FairSpec == FairInit /\ [][Next]_vars /\ \A p \in Procs : WF_vars(Step(p))

InTransfer(p) == pc[p] \in TransferPcs \cup {"t_readTo"}

\* C7: a transfer that is under way finishes, by committing or by failing
\* with its db transaction rolled back, also when another transfer moves
\* money between the same two accounts in the opposite direction.
C7_TransfersFinish ==
    \A p \in Procs : InTransfer(p) ~> (pc[p] = "done" /\ writer # p)

\* two transfers in opposite directions: one holds the write lock, the other
\* is at its first write
C7_Witness ==
    \E p, q \in Procs :
        /\ pc[p] = "t_updateTo" /\ pc[q] = "t_updateFrom"
        /\ writer = p
        /\ req[p].from_account_id = req[q].to_account_id
        /\ req[p].to_account_id = req[q].from_account_id

\* the account was missing or owned by someone else before any request ran
\* (no request creates an account or changes its owner, so it stays so)
NotOwned0(accountID, userID) ==
    accounts0[accountID] = NoRow \/ accounts0[accountID].user_id # userID

\* a step of request p changes no account and no transaction row of a user
\* other than the caller
OthersUntouched(p) ==
    StepOf(p) =>
        \A a \in AccountIds :
            (accounts[a] # NoRow /\ accounts[a].user_id # req'[p].user_id) =>
                /\ accounts'[a] = accounts[a]
                /\ RowsOf(transactions', a) = RowsOf(transactions, a)

\* C8 as stated: a create-transaction on, or a transfer from or to, an
\* account that is missing or owned by someone else ends with NotFound.
C8_NotFoundAlways ==
    \A p \in Procs :
        /\ ( /\ req[p].op = "create"
             /\ NotOwned0(req[p].account_id, req[p].user_id)
             /\ pc[p] = "done" )
           => resp[p].status = 404
        /\ ( /\ req[p].op = "transfer"
             /\ \/ NotOwned0(req[p].from_account_id, req[p].user_id)
                \/ NotOwned0(req[p].to_account_id, req[p].user_id)
             /\ pc[p] = "done" )
           => resp[p].status = 404

\* C8 as amended: a create-transaction on an account that is missing or
\* owned by someone else, and a transfer with a positive amount and two
\* different account ids of which one is missing or owned by someone else,
\* end with NotFound before any db transaction is begun; no step of a
\* request changes an account or a transaction row of another user.
NotFoundBeforeWrite(p) ==
    /\ ( /\ req[p].op = "create"
         /\ NotOwned0(req[p].account_id, req[p].user_id) )
       => (pc[p] = "done" /\ resp[p].status = 404 /\ begun[p] = 0)
    /\ ( /\ req[p].op = "transfer"
         /\ req[p].amount > 0
         /\ req[p].from_account_id # req[p].to_account_id
         /\ \/ NotOwned0(req[p].from_account_id, req[p].user_id)
            \/ NotOwned0(req[p].to_account_id, req[p].user_id) )
       => /\ pc[p] \in {"t_readTo", "done"}
          /\ pc[p] = "done" => resp[p].status = 404
          /\ begun[p] = 0

C8_OwnershipChecked ==
    [][\A p \in Procs : NotFoundBeforeWrite(p)' /\ OthersUntouched(p)]_vars

\* a transfer into the account of another user was answered NotFound
C8_Witness ==
    \E p \in Procs :
        /\ req[p].op = "transfer"
        /\ accounts0[req[p].from_account_id] # NoRow
        /\ accounts0[req[p].from_account_id].user_id = req[p].user_id
        /\ accounts0[req[p].to_account_id] # NoRow
        /\ accounts0[req[p].to_account_id].user_id # req[p].user_id
        /\ resp[p] = [status |-> 404, error |-> "Destination account not found"]
        /\ accounts = accounts0 /\ transactions = {}

\* the legal transaction types of the claim's table
LegalTypes(accountType) ==
    CASE accountType \in {"cash", "debit", "saving", "investment"} ->
            {"deposit", "withdrawal"}
      [] accountType = "credit_card" -> {"expense", "payment"}
      [] accountType = "loan" -> {"payment"}

\* C9: a create-transaction on an account found for the caller is answered
\* InvalidTransactionType exactly when its type is not legal for the
\* account's type, and then the step changes no account and no row.
TypeValidated(p) ==
    ( /\ pc[p] = "idle"
      /\ req'[p].op = "create"
      /\ QueryAccount(req'[p].account_id, req'[p].user_id) # NoRow )
    => LET account == accounts[req'[p].account_id]
           rejected == /\ pc'[p] = "done"
                       /\ resp'[p] = [status |-> 400, error |->
                              "Invalid transaction type for this account"]
       IN  /\ rejected <=> req'[p].type \notin LegalTypes(account.type)
           /\ rejected => /\ accounts' = accounts
                          /\ transactions' = transactions
                          /\ writer' = writer /\ pending' = pending

C9_InvalidType == [][\A p \in Procs : TypeValidated(p)]_vars

\* an Expense on a loan account was answered InvalidTransactionType
C9_Witness ==
    \E p \in Procs :
        /\ req[p].op = "create"
        /\ req[p].type = "expense"
        /\ accounts0[req[p].account_id] # NoRow
        /\ accounts0[req[p].account_id].type = "loan"
        /\ resp[p].error = "Invalid transaction type for this account"
        /\ accounts = accounts0 /\ transactions = {}

InvalidAmount == [status |-> 400, error |-> "Amount must be positive"]

\* C10 as stated: a create-transaction (on an account found for the caller)
\* and a transfer with amount <= 0 are answered InvalidAmount.
RejectsAmount(p) ==
    ( /\ pc[p] = "idle"
      /\ req'[p].op \in {"create", "transfer"}
      /\ req'[p].amount <= 0
      /\ req'[p].op = "create" =>
            QueryAccount(req'[p].account_id, req'[p].user_id) # NoRow )
    => (pc'[p] = "done" /\ resp'[p] = InvalidAmount)

RejectsAmountAmended(p) ==
    ( /\ pc[p] = "idle"
      /\ req'[p].op \in {"create", "transfer"}
      /\ req'[p].amount <= 0 )
    => /\ pc'[p] = "done"
       /\ resp'[p].status \in {400, 404}
       /\ accounts' = accounts /\ transactions' = transactions
       /\ writer' = writer /\ pending' = pending
       /\ req'[p].op = "transfer" => resp'[p] = InvalidAmount
       /\ ( /\ req'[p].op = "create"
            /\ QueryAccount(req'[p].account_id, req'[p].user_id) # NoRow
            /\ req'[p].type \in
                  LegalTypes(accounts[req'[p].account_id].type) )
          => resp'[p] = InvalidAmount

Type0(accountID) ==
    IF accounts0[accountID] = NoRow THEN "" ELSE accounts0[accountID].type

InvalidDirection ==
    [status |-> 400, error |->
        "Can only transfer from asset accounts (cash, debit, savings, investment)"]

\* C11: a transfer with a positive amount between two different accounts
\* found for the caller is answered InvalidDirection exactly when its source
\* is a CreditCard or a Loan, whatever the type of the destination, and then
\* no account, no transaction row and no db transaction is touched; from a
\* Cash, Debit, Saving or Investment source it passes the direction check
\* for each destination type (it goes on to the atomic write, or stops at a
\* currency pair that has no rate).
DirectionValidated(p) ==
    ( /\ pc[p] = "t_readTo"
      /\ StepOf(p)
      /\ QueryAccount(req[p].to_account_id, req[p].user_id) # NoRow )
    => LET sourceType == loc[p].fromAccount.type
           rejected == pc'[p] = "done" /\ resp'[p] = InvalidDirection
       IN  /\ rejected <=> sourceType \in {"credit_card", "loan"}
           /\ rejected => /\ accounts' = accounts
                          /\ transactions' = transactions
                          /\ writer' = writer /\ pending' = pending
                          /\ begun'[p] = 0
           /\ sourceType \in {"cash", "debit", "saving", "investment"} =>
                 \/ pc'[p] = "t_begin"
                 \/ resp'[p].error = "Failed to convert currency"

C11_InvalidDirection == [][\A p \in Procs : DirectionValidated(p)]_vars

\* a transfer from a loan into a debit account was answered
\* InvalidDirection and changed nothing, while the transfer from the debit
\* account into the loan passed the check
C11_Witness ==
    \E p, q \in Procs :
        /\ req[p].op = "transfer"
        /\ Type0(req[p].from_account_id) = "loan"
        /\ Type0(req[p].to_account_id) = "debit"
        /\ resp[p] = InvalidDirection
        /\ req[q].op = "transfer"
        /\ Type0(req[q].from_account_id) = "debit"
        /\ Type0(req[q].to_account_id) = "loan"
        /\ pc[q] = "t_begin"
        /\ accounts = accounts0 /\ transactions = {}

SameAccountError ==
    [status |-> 400, error |-> "Cannot transfer to the same account"]

\* C12 as stated: a transfer whose source and destination are the same
\* account is answered SameAccount, for every amount.
RejectsSameAccount(p) ==
    ( /\ pc[p] = "idle"
      /\ req'[p].op = "transfer"
      /\ req'[p].from_account_id = req'[p].to_account_id )
    => (pc'[p] = "done" /\ resp'[p] = SameAccountError)

C12_SameAccountAlways == [][\A p \in Procs : RejectsSameAccount(p)]_vars

\* C12 as amended: a transfer whose source and destination are the same
\* account ends in its first step, before any account is looked up, and
\* changes no balance and writes no row; the answer is SameAccount when the
\* amount is positive and InvalidAmount when it is not.
RejectsSameAccountAmended(p) ==
    ( /\ pc[p] = "idle"
      /\ req'[p].op = "transfer"
      /\ req'[p].from_account_id = req'[p].to_account_id )
    => /\ pc'[p] = "done"
       /\ resp'[p] = IF req'[p].amount > 0 THEN SameAccountError
                     ELSE InvalidAmount
       /\ accounts' = accounts /\ transactions' = transactions
       /\ writer' = writer /\ pending' = pending
       /\ begun'[p] = 0

C12_SameAccount == [][\A p \in Procs : RejectsSameAccountAmended(p)]_vars

\* a transfer of a positive amount from an account to itself was answered
\* SameAccount, and one of amount 0 was answered InvalidAmount
C12_Witness ==
    \E p, q \in Procs :
        /\ req[p].op = "transfer" /\ req[q].op = "transfer"
        /\ req[p].from_account_id = req[p].to_account_id
        /\ req[q].from_account_id = req[q].to_account_id
        /\ req[p].amount > 0 /\ resp[p] = SameAccountError
        /\ req[q].amount = 0 /\ resp[q] = InvalidAmount
        /\ accounts = accounts0 /\ transactions = {}

\* C13: the commit of a transfer adds exactly two transaction rows, one on
\* the source account and one on the destination account, and each of the
\* two carries the id of the other as its linkedTransactionId; no other step
\* of a transfer adds a row; the commit of a create-transaction adds one row
\* that has no linkedTransactionId, and a committed row that has none never
\* gets one.
TransferRows(p) ==
    (pc[p] \in TransferPcs \cup {"t_readTo"} /\ StepOf(p)) =>
        LET new == transactions' \ transactions
            committed == pc[p] = "t_commit" /\ resp'[p].status = 201
        IN  /\ ~committed => new = {}
            /\ committed =>
                 /\ Cardinality(new) = 2
                 /\ \E s, d \in new :
                      /\ s.id # d.id
                      /\ s.account_id = req[p].from_account_id
                      /\ d.account_id = req[p].to_account_id
                      /\ s.linked_transaction_id = d.id
                      /\ d.linked_transaction_id = s.id

CreateRows(p) ==
    (pc[p] \in CreatePcs /\ StepOf(p)) =>
        LET new == transactions' \ transactions
        IN  IF pc'[p] = "c_fetch"
            THEN /\ Cardinality(new) = 1
                 /\ \A t \in new : /\ t.account_id = req[p].account_id
                                   /\ t.linked_transaction_id = NullId
            ELSE new = {}

UnlinkedStaysUnlinked ==
    \A t \in transactions :
        t.linked_transaction_id = NullId =>
            \A u \in transactions' : u.id = t.id => u = t

C13_LinkedRows ==
    [][/\ \A p \in Procs : TransferRows(p) /\ CreateRows(p)
       /\ UnlinkedStaysUnlinked]_vars

\* a transfer and a create-transaction have both committed: the table holds
\* the two legs, linked to each other, and a row without a link
C13_Witness ==
    /\ \E p \in Procs : req[p].op = "transfer" /\ resp[p].status = 201
    /\ \E p \in Procs : req[p].op = "create" /\ resp[p].status = 201
    /\ \E s, d, c \in transactions :
         /\ s.linked_transaction_id = d.id
         /\ d.linked_transaction_id = s.id
         /\ s.id # d.id
         /\ c.linked_transaction_id = NullId

\* the two rows the commit of transfer p adds: <<source leg, destination leg>>
NewLegs(p) ==
    {<<s, d>> \in (transactions' \ transactions) \X (transactions' \ transactions) :
        /\ s.account_id = req[p].from_account_id
        /\ d.account_id = req[p].to_account_id}

TransferCommitted(p) ==
    pc[p] = "t_commit" /\ pc'[p] = "done" /\ resp'[p].status = 201

\* C14: at the commit of a transfer the source leg has type Withdrawal; the
\* destination leg has type Deposit when the destination is Cash, Debit,
\* Saving or Investment and type Payment when it is a CreditCard or a Loan,
\* never Expense; and the owed amount stored for a CreditCard or Loan
\* destination is the owed amount the transfer read minus the amount of the
\* destination leg.
LegTypes(p) ==
    TransferCommitted(p) =>
        /\ NewLegs(p) # {}
        /\ \A legs \in NewLegs(p) :
             LET s == legs[1]
                 d == legs[2]
                 dest == accounts'[req[p].to_account_id]
             IN  /\ s.type = "withdrawal"
                 /\ d.type # "expense"
                 /\ dest.type \in {"cash", "debit", "saving", "investment"}
                        => d.type = "deposit"
                 /\ dest.type = "credit_card" =>
                        /\ d.type = "payment"
                        /\ dest.credit_owed =
                             NullFloat64(Owed(loc[p].toAccount.credit_owed) - d.amount)
                 /\ dest.type = "loan" =>
                        /\ d.type = "payment"
                        /\ dest.loan_current_owed =
                             NullFloat64(Owed(loc[p].toAccount.loan_current_owed) - d.amount)

C14_LegTypes == [][\A p \in Procs : LegTypes(p)]_vars

\* a transfer of 1 into the loan that owed 6 has committed: the loan owes 5
\* and its leg is a Payment
C14_Witness ==
    \E p \in Procs :
        /\ req[p].op = "transfer" /\ resp[p].status = 201
        /\ Type0(req[p].to_account_id) = "loan"
        /\ accounts[req[p].to_account_id] # NoRow
        /\ accounts[req[p].to_account_id].loan_current_owed = NullFloat64(5)
        /\ \E d \in transactions :
             /\ d.account_id = req[p].to_account_id
             /\ d.type = "payment" /\ d.amount = 1 /\ d.balance_after = 5

\* C15: at the commit of a transfer between two accounts of the same
\* currency both legs carry the requested amount, and the balance stored for
\* the source is the balance the transfer read minus the amount.
SameCurrencyAmounts(p) ==
    ( /\ TransferCommitted(p)
      /\ loc[p].fromAccount.currency = loc[p].toAccount.currency )
    => /\ NewLegs(p) # {}
       /\ \A legs \in NewLegs(p) :
            /\ legs[1].amount = req[p].amount
            /\ legs[2].amount = req[p].amount
            /\ legs[1].balance_after =
                   loc[p].fromAccount.current_balance - req[p].amount
       /\ accounts'[req[p].from_account_id].current_balance =
              loc[p].fromAccount.current_balance - req[p].amount

C15_SameCurrency == [][\A p \in Procs : SameCurrencyAmounts(p)]_vars

\* a transfer of 1 from the saving account (balance 5) to the cash account
\* of the same currency has committed: the saving account holds 4
C15_Witness ==
    \E p \in Procs :
        /\ req[p].op = "transfer" /\ resp[p].status = 201
        /\ Type0(req[p].from_account_id) = "saving"
        /\ Type0(req[p].to_account_id) = "cash"
        /\ accounts[req[p].from_account_id].current_balance = 4
        /\ \E s, d \in transactions :
             /\ s.account_id = req[p].from_account_id /\ s.amount = 1
             /\ d.account_id = req[p].to_account_id /\ d.amount = 1
             /\ s.linked_transaction_id = d.id

\* amount * rate(from, to), from the directory as it stands
Converted(amount, from, to) ==
    (amount * rates[<<from, to>>].num) \div rates[<<from, to>>].den

\* C16: at the commit of a transfer between accounts of different
\* currencies the directory holds a rate for the pair, the destination leg
\* carries amount * rate, the balance stored for the destination is the one
\* the transfer read changed by amount * rate (added to an asset balance,
\* taken off an owed amount), and the source leg and the source balance
\* carry the unconverted amount.
CrossCurrencyAmounts(p) ==
    ( /\ TransferCommitted(p)
      /\ loc[p].fromAccount.currency # loc[p].toAccount.currency )
    => LET from == loc[p].fromAccount
           to == loc[p].toAccount
       IN  /\ <<from.currency, to.currency>> \in DOMAIN rates
           /\ NewLegs(p) # {}
           /\ \A legs \in NewLegs(p) :
                /\ legs[1].amount = req[p].amount
                /\ legs[2].amount =
                       Converted(req[p].amount, from.currency, to.currency)
                /\ BalanceOf(accounts'[req[p].to_account_id]) =
                       IF to.type \in {"credit_card", "loan"}
                       THEN BalanceOf(to) - legs[2].amount
                       ELSE BalanceOf(to) + legs[2].amount
           /\ accounts'[req[p].from_account_id].current_balance =
                  from.current_balance - req[p].amount

C16_CrossCurrency == [][\A p \in Procs : CrossCurrencyAmounts(p)]_vars

\* a transfer of 1 USD from the saving account (balance 5) to the EUR credit
\* card (owed 3) has committed at the rate USD->EUR = 2: the saving account
\* holds 4, the card owes 1 and its leg carries 2
C16_Witness ==
    \E p \in Procs :
        /\ req[p].op = "transfer" /\ resp[p].status = 201
        /\ Type0(req[p].from_account_id) = "saving"
        /\ Type0(req[p].to_account_id) = "credit_card"
        /\ accounts0[req[p].to_account_id].currency = "EUR"
        /\ accounts[req[p].from_account_id].current_balance = 4
        /\ accounts[req[p].to_account_id].credit_owed = NullFloat64(1)
        /\ \E s, d \in transactions :
             /\ s.account_id = req[p].from_account_id /\ s.amount = 1
             /\ d.account_id = req[p].to_account_id /\ d.amount = 2
             /\ d.balance_after = 1

ConversionUnavailable == [status |-> 500, error |-> "Failed to convert currency"]

\* C17: a transfer that has passed the direction check is answered
\* ConversionUnavailable exactly when the two accounts differ in currency
\* and the directory holds no rate for the pair (source currency,
\* destination currency); it is answered before a db transaction is begun,
\* and no balance changes and no row is written.
ConversionChecked(p) ==
    ( /\ pc[p] = "t_readTo"
      /\ StepOf(p)
      /\ QueryAccount(req[p].to_account_id, req[p].user_id) # NoRow
      /\ loc[p].fromAccount.type \in {"cash", "debit", "saving", "investment"} )
    => LET from == loc[p].fromAccount.currency
           to == accounts[req[p].to_account_id].currency
           rejected == pc'[p] = "done" /\ resp'[p] = ConversionUnavailable
       IN  /\ rejected <=> (from # to /\ <<from, to>> \notin DOMAIN rates)
           /\ rejected => /\ accounts' = accounts
                          /\ transactions' = transactions
                          /\ lastTxId' = lastTxId
                          /\ writer' = writer /\ pending' = pending
                          /\ begun'[p] = 0

C17_ConversionUnavailable == [][\A p \in Procs : ConversionChecked(p)]_vars

\* a transfer from the JPY investment account to the USD credit card was
\* answered ConversionUnavailable and changed nothing
C17_Witness ==
    \E p \in Procs :
        /\ req[p].op = "transfer"
        /\ Type0(req[p].from_account_id) = "investment"
        /\ accounts0[req[p].from_account_id].currency = "JPY"
        /\ Type0(req[p].to_account_id) = "credit_card"
        /\ resp[p] = ConversionUnavailable
        /\ begun[p] = 0
        /\ accounts = accounts0 /\ transactions = {}

\* the currencies of the callers and of the service
AllCurrencies == Currencies \cup Supported

\* C18: in every state of the rate service -- the directory empty, loaded
\* from rows of any age, without an entry for X, cleared or partly filled by
\* a load in progress -- convert(amount, X, X) is amount, for every
\* currency X; a call with from = to returns it without taking the lock.
C18_ConvertIdentity ==
    /\ \A X \in AllCurrencies, amount \in ConvertAmounts \cup Amounts :
          Convert(amount, X, X) = [amount |-> amount, err |-> FALSE]
    /\ \A r \in Readers :
          (ask[r].op = "convert" /\ ask[r].from = ask[r].to) =>
              /\ rpc[r] = "done"
              /\ got[r] = [amount |-> ask[r].amount, err |-> FALSE]

\* a caller converted JPY to JPY and holds the amount, while a load has
\* cleared the directory and filled in a part of it, with no entry for JPY
C18_Witness ==
    \E r \in Readers :
        /\ ask[r] = [op |-> "convert", amount |-> 4, from |-> "JPY", to |-> "JPY"]
        /\ got[r] = [amount |-> 4, err |-> FALSE]
        /\ mu.writer
        /\ svc.pc = "l_scan" /\ 0 < svc.n /\ svc.n < Len(svc.rows)
        /\ <<"JPY", "JPY">> \notin DOMAIN rates

\* RateUnavailable: the error of a conversion without a rate
RateUnavailable == [amount |-> 0, err |-> TRUE]

\* amount * rate, for a rate of the directory d that makes it a whole number
Product(amount, d, from, to) ==
    [amount |-> (amount * d[<<from, to>>].num) \div d[<<from, to>>].den,
     err |-> FALSE]

\* the answer the ordered pair (from, to) alone gives in the directory d
ByOrderedPair(amount, d, from, to) ==
    IF <<from, to>> \in DOMAIN d THEN Product(amount, d, from, to)
    ELSE RateUnavailable

\* in this state convert answers every pair of distinct currencies by the
\* entry of the ordered pair alone
ConvertByOrderedPair ==
    \A from \in AllCurrencies : \A to \in AllCurrencies \ {from} :
    \A amount \in ConvertAmounts :
        /\ Convert(amount, from, to) = ByOrderedPair(amount, rates, from, to)
        /\ <<from, to>> \in DOMAIN rates =>
              (amount * rates[<<from, to>>].num) % rates[<<from, to>>].den = 0

\* a caller's convert of distinct currencies returns what the ordered pair
\* gives in the directory it reads
ReadsOrderedPair(r) ==
    (/\ rpc[r] = "r_read" /\ rpc'[r] = "done"
     /\ ask[r].op = "convert") =>
        got'[r] = ByOrderedPair(ask[r].amount, rates, ask[r].from, ask[r].to)

\* C19: for from /= to, convert(amount, from, to) is amount * rate when the
\* directory holds an entry for the ordered pair (from, to), and fails with
\* RateUnavailable when it holds none: also when it holds the reverse pair
\* (to, from), or entries from which a rate through a third currency could
\* be derived. It holds of the function in every state of the directory and
\* of every answer a caller receives.
C19_OrderedPairOnly ==
    []ConvertByOrderedPair /\ [][\A r \in Readers : ReadsOrderedPair(r)]_vars

\* a caller asked for EUR to USD and received RateUnavailable from a fully
\* loaded directory that holds USD to EUR but not EUR to USD
C19_Witness ==
    \E r \in Readers :
        /\ rpc[r] = "done"
        /\ ask[r] = [op |-> "convert", amount |-> 4, from |-> "EUR", to |-> "USD"]
        /\ got[r] = RateUnavailable
        /\ ~mu.writer /\ rates = loaded
        /\ <<"USD", "EUR">> \in DOMAIN rates
        /\ <<"EUR", "USD">> \notin DOMAIN rates

\* the directory that holds every row of the table
DirectoryOf(table) == [k \in DOMAIN table |-> table[k].rate]

\* the answer to a call from the directory d with the update time t
AnswerFrom(d, t, call) ==
    IF call.op = "convert"
    THEN IF call.from = call.to
         THEN [amount |-> call.amount, err |-> FALSE]
         ELSE ByOrderedPair(call.amount, d, call.from, call.to)
    ELSE [base |-> call.base,
          rates |-> [target \in {k[2] : k \in {j \in DOMAIN d : j[1] = call.base}}
                       |-> d[<<call.base, target>>]],
          updated_at |-> t]

\* a read under the lock finds no writer, and its answer is the one of the
\* directory as the last finished load left it
ReadsPublished(r) ==
    (rpc[r] = "r_read" /\ rpc'[r] = "done") =>
        /\ ~mu.writer
        /\ rates = loaded
        /\ got'[r] = AnswerFrom(loaded, updatedAt, ask[r])

\* the directory and its update time change under the write lock only, with
\* no reader inside
WritesUnderLock ==
    (rates' /= rates \/ updatedAt' /= updatedAt) =>
        mu.writer /\ mu.readers = 0

\* what a finished load leaves is the whole table, handed over by the unlock
Publishes ==
    loaded' /= loaded =>
        /\ mu.writer /\ ~mu'.writer
        /\ loaded' = DirectoryOf(exchange_rates)
        /\ rates' = loaded'

WaitsForLoad(r) == rpc[r] = "r_rlock" /\ mu.writer

\* C21: reads of the directory (convert, getAll) never block on a refresh:
\* in no reachable state does a reader wait for the lock while a load of the
\* directory holds it.
C21_ReadsNeverBlock == \A r \in Readers : ~WaitsForLoad(r)

\* the time of the newest row of the table
Newest(table) ==
    IF DOMAIN table = {} THEN ZeroTime
    ELSE CHOOSE t \in {table[k].updated_at : k \in DOMAIN table} :
            \A k \in DOMAIN table : table[k].updated_at <= t

\* after its load Init goes on to a refresh exactly when no rate is loaded
\* or the newest row is older than 24 hours, and is ready otherwise
InitDecides ==
    (svc.pc = "i_check" /\ svc'.pc /= "i_check") =>
        /\ svc.caller = "init"
        /\ rates \in {NoRates, DirectoryOf(exchange_rates)}
        /\ IF rates = NoRates \/ now - Newest(exchange_rates) > Day
           THEN svc'.pc = "f_fetch"
           ELSE svc'.pc = "ready"

\* when the refresh of Init returns, Init fails exactly when the refresh
\* failed and no rate is loaded; after a failed refresh with rates loaded
\* the directory is the loaded one and the table is as it was loaded
InitReturns ==
    (svc.pc = "f_done" /\ svc.caller = "init" /\ svc'.pc /= "f_done") =>
        IF svc.err
        THEN IF rates = NoRates
             THEN svc'.pc = "failed"
             ELSE /\ svc'.pc = "ready"
                  /\ rates' = rates /\ rates = loaded
                  /\ rates = DirectoryOf(exchange_rates)
                  /\ exchange_rates' = exchange_rates
        ELSE svc'.pc = "ready"

\* C22: Init attempts a refresh exactly when the table it loaded is empty or
\* its newest row is older than 24 hours; when that refresh fails and at
\* least one rate was loaded, Init succeeds and the directory keeps the
\* loaded rates; when it fails and no rate was loaded, Init fails.
C22_InitFallback == [][InitDecides /\ InitReturns]_vars

\* Init is through with rates of two days before, after its refresh failed
C22_Witness ==
    /\ svc.pc = "ready" /\ svc.caller = "init" /\ svc.err
    /\ rates /= NoRates /\ rates = DirectoryOf(exchange_rates)
    /\ now - updatedAt > Day

\* a refresh is under way and has not committed
BeforeCommit == svc.pc \in {"f_fetch", "f_store"}

\* as long as a refresh has not committed, and when it ends without a
\* commit, the table, the directory and its update time stay as they are;
\* a refresh that ends without a commit reports an error
UncommittedKeeps ==
    (BeforeCommit /\ svc'.pc /= "l_lock") =>
        /\ exchange_rates' = exchange_rates
        /\ rates' = rates /\ updatedAt' = updatedAt /\ loaded' = loaded
        /\ rates = loaded
        /\ svc'.pc = "f_done" => svc'.err

\* a refresh reports an error only when it ends without a commit
FailsBeforeCommit ==
    (svc'.pc = "f_done" /\ svc'.err /\ svc.pc /= "f_done") => BeforeCommit

\* C23: a refresh that fails (the provider does not answer in time, answers
\* with an error or without success, or the begin, an upsert or the commit
\* of the transaction fails) leaves the exchange_rates table and the
\* directory exactly as they were before it, so the service keeps serving
\* the rates it had.
C23_FailedRefreshKeeps == [][UncommittedKeeps /\ FailsBeforeCommit]_vars

\* the transaction of a refresh of the updater failed, and the directory
\* holds all rows of the table
C23_Witness ==
    /\ svc.pc = "f_done" /\ svc.err /\ svc.caller = "updater"
    /\ svc.data /= NoRates
    /\ rates /= NoRates /\ rates = DirectoryOf(exchange_rates)
    /\ Stored(exchange_rates, svc.data, now) /= exchange_rates

\* the base currency of the provider's rates
Base == "USD"

\* the rate r is p / q
Is(r, p, q) == r.num * q = p * r.den

\* the provider returned a positive rate for every supported currency
AllPositive(data) ==
    /\ Supported \subseteq DOMAIN data
    /\ \A c \in Supported : data[c] > 0

\* the directory d holds every ordered pair of supported currencies
HoldsAllPairs(d) == \A A \in Supported, B \in Supported : <<A, B>> \in DOMAIN d

\* the rates of d are derived from data as stated, the base currency against
\* itself included
DerivedAsStated(d, data) ==
    /\ HoldsAllPairs(d)
    /\ \A B \in Supported :
          /\ Is(d[<<Base, B>>], data[B], 1)
          /\ Is(d[<<B, Base>>], 1, data[B])
    /\ \A A \in Supported \ {Base}, B \in Supported \ {Base} :
          Is(d[<<A, B>>], data[B], data[A])

\* the rates of d are derived from data between different currencies, and
\* are 1 from every currency to itself
Derived(d, data) ==
    /\ HoldsAllPairs(d)
    /\ \A X \in Supported : Is(d[<<X, X>>], 1, 1)
    /\ \A B \in Supported \ {Base} :
          /\ Is(d[<<Base, B>>], data[B], 1)
          /\ Is(d[<<B, Base>>], 1, data[B])
    /\ \A A \in Supported \ {Base}, B \in Supported \ {Base} :
          Is(d[<<A, B>>], data[B], data[A])

\* the step that ends the reload of a refresh that committed
RefreshLoaded == svc.pc = "l_scan" /\ svc'.pc = "f_done"

DeletesOwn(p) ==
    /\ pc[p] = "idle" /\ pc'[p] = "done" /\ req'[p].op = "delete"
    /\ writer = 0
    /\ accounts[req'[p].account_id] # NoRow
    /\ accounts[req'[p].account_id].user_id = req'[p].user_id

\* the delete is answered 200 and removes the account and exactly the
\* transaction rows of the account
DeleteCascades(p) ==
    DeletesOwn(p) =>
        /\ resp'[p].status = 200
        /\ accounts'[req'[p].account_id] = NoRow
        /\ transactions' =
              {t \in transactions : t.account_id # req'[p].account_id}

\* C25: deleting an account the caller owns always succeeds and removes the
\* account with all of its transaction rows, also when these are transfer
\* legs linked to rows of another account; rows of other accounts stay.
C25_DeleteCascades == [][\A p \in Procs : DeleteCascades(p)]_vars

\* a committed row t is in the table after the step as it was before, or it
\* is gone because the step deleted the account it belongs to
RowKept(t) ==
    \/ t \in transactions'
    \/ /\ \A u \in transactions' : u.id # t.id
       /\ accounts[t.account_id] # NoRow
       /\ accounts'[t.account_id] = NoRow
       /\ \E p \in Procs : /\ pc[p] = "idle" /\ req'[p].op = "delete"
                            /\ req'[p].account_id = t.account_id

\* C26: no step of a create-transaction, a transfer, an account update or an
\* account delete changes a field (account id, type, amount, balanceAfter,
\* linkedTransactionId) of a committed transaction row; a committed row
\* leaves the table only in the step that deletes its own account.
C26_RowsImmutable == [][\A t \in transactions : RowKept(t)]_vars

\* an account was edited after a transaction on it committed: its balance
\* differs from the balanceAfter of the row, and the row is as committed
C26_Witness ==
    \E p \in Procs, q \in Procs, t \in transactions :
        /\ req[p].op = "create" /\ resp[p].status = 201
        /\ req[q].op = "update" /\ resp[q].status = 200
        /\ req[q].account_id = t.account_id
        /\ req[p].account_id = t.account_id
        /\ accounts[t.account_id].current_balance # t.balance_after
        /\ accounts[t.account_id].current_balance = 2

\* C27: every transaction row that is stored has amount > 0, the
\* destination leg of a cross-currency transfer, whose amount is the
\* converted amount, included.
C27_PositiveAmounts == \A t \in transactions : t.amount > 0

\* a Withdrawal or a Payment that is legal for an account found for the
\* caller, with a positive amount, goes on to the atomic write
CreatePasses(p) ==
    ( /\ pc[p] = "idle"
      /\ req'[p].op = "create"
      /\ req'[p].type \in {"withdrawal", "payment"}
      /\ req'[p].amount > 0
      /\ accounts[req'[p].account_id] # NoRow
      /\ accounts[req'[p].account_id].user_id = req'[p].user_id
      /\ req'[p].type \in LegalTypes(accounts[req'[p].account_id].type) )
    => pc'[p] = "c_begin"

\* a transfer with a positive amount from an asset account to another
\* account, both found for the caller, goes on to the atomic write unless
\* the currencies differ and no rate is held
TransferPasses(p) ==
    /\ ( /\ pc[p] = "idle"
         /\ req'[p].op = "transfer"
         /\ req'[p].amount > 0
         /\ req'[p].from_account_id # req'[p].to_account_id
         /\ accounts[req'[p].from_account_id] # NoRow
         /\ accounts[req'[p].from_account_id].user_id = req'[p].user_id )
       => pc'[p] = "t_readTo"
    /\ ( /\ pc[p] = "t_readTo" /\ StepOf(p)
         /\ accounts[req[p].to_account_id] # NoRow
         /\ accounts[req[p].to_account_id].user_id = req[p].user_id
         /\ loc[p].fromAccount.type \in {"cash", "debit", "saving", "investment"}
         /\ \/ loc[p].fromAccount.currency = accounts[req[p].to_account_id].currency
            \/ <<loc[p].fromAccount.currency,
                 accounts[req[p].to_account_id].currency>> \in DOMAIN rates )
       => pc'[p] = "t_begin"

\* once the atomic write has begun, a request ends committed or with the
\* failure of a statement; the commit stores the balance the request read
\* minus the amount, below 0 or not
WritesWithoutFloor(p) ==
    /\ (pc[p] \in CreatePcs \cup TransferPcs /\ pc'[p] = "done") =>
           resp'[p].status \in {201, 500}
    /\ ( /\ pc[p] = "c_commit" /\ pc'[p] = "c_fetch"
         /\ req[p].type \in {"withdrawal", "payment"} )
       => BalanceOf(accounts'[req[p].account_id]) =
              BalanceOf(loc[p].account) - req[p].amount
    /\ TransferCommitted(p) =>
           /\ accounts'[req[p].from_account_id].current_balance =
                  loc[p].fromAccount.current_balance - req[p].amount
           /\ loc[p].toAccount.type \in {"credit_card", "loan"} =>
                  \A legs \in NewLegs(p) :
                      BalanceOf(accounts'[req[p].to_account_id]) =
                          BalanceOf(loc[p].toAccount) - legs[2].amount

\* C28: no balance floor is enforced.  A valid Withdrawal, Payment or
\* transfer is not rejected whatever the balances are, and its commit stores
\* the balance it read minus the amount: a withdrawal or an outgoing
\* transfer larger than the balance leaves a negative balance, a payment or
\* an incoming transfer larger than the amount owed leaves a negative owed
\* amount.
C28_NoBalanceFloor ==
    [][\A p \in Procs :
          CreatePasses(p) /\ TransferPasses(p) /\ WritesWithoutFloor(p)]_vars

\* a transfer of 1 from an empty cash account to a credit card on which
\* nothing is owed has committed: the balance is -1 and the owed amount -1
C28_Witness ==
    \E p \in Procs :
        /\ req[p].op = "transfer" /\ resp[p].status = 201
        /\ accounts0[req[p].from_account_id].current_balance = 0
        /\ accounts[req[p].from_account_id].current_balance = -1
        /\ accounts[req[p].to_account_id].type = "credit_card"
        /\ accounts[req[p].to_account_id].credit_owed = NullFloat64(-1)
        /\ \E t \in transactions :
              t.account_id = req[p].to_account_id /\ t.balance_after = -1

\* C29: for every asset account and every amount > 0, a Deposit of the
\* amount followed by a Withdrawal of the same amount, with no other
\* operation on the account in between, leaves the stored balance at its
\* value before the Deposit.
C29_RoundTrip == f64.pc = "withdrawn" => f64.balance = f64.balance0

\* the transaction rows a response body carries
RowsInBody(b) ==
    IF "transaction" \in DOMAIN b THEN {b.transaction}
    ELSE IF "account_id" \in DOMAIN b THEN {b}
    ELSE {}

CrossCurrency(p) ==
    accounts'[req[p].from_account_id].currency
        # accounts'[req[p].to_account_id].currency

OwedColumns(row) == <<row.credit_owed, row.loan_current_owed>>

OwedChanged(id) ==
    /\ accounts[id] # NoRow /\ accounts'[id] # NoRow
    /\ OwedColumns(accounts'[id]) # OwedColumns(accounts[id])

\* C31 as stated: credit_owed and loan_current_owed change only at the commit
\* of a created transaction or of a transfer; the direct edit of an account
\* never changes them.
C31_OwedOnlyByTransactions ==
    [][\A id \in AccountIds : OwedChanged(id) =>
          \E p \in Procs : pc[p] \in {"c_commit", "t_commit"} /\ pc'[p] # pc[p]]_vars

\* t is the first time from start on at which the clock shows the hour of
\* the updater
NextOccurrence(start, t) ==
    /\ t >= start
    /\ t % Day = AnchorHour
    /\ \A u \in start..(t - 1) : u % Day # AnchorHour

\* the updater starts a refresh attempt
UpdaterAttempts == svc'.caller = "updater" /\ svc'.pc = "f_fetch" /\ svc.pc # "f_fetch"

FirstAttempt == UpdaterAttempts /\ svc.pc = "ready"

\* the first attempt is made at the next 6 AM from the start on; every later
\* attempt is made by one tick, 24 hours after the attempt before it, and
\* every tick makes an attempt; time passes in no other step (no request
\* moves the updater); an attempt that ends, failed or not, waits for the
\* next tick
UpdaterSchedule ==
    /\ FirstAttempt => NextOccurrence(now, now')
    /\ UpdaterAttempts /\ ~FirstAttempt =>
          svc.pc = "u_wait" /\ ticks' = ticks + 1 /\ now' = now + Day
    /\ ticks' # ticks => UpdaterAttempts /\ ticks' = ticks + 1
    /\ now' # now => UpdaterAttempts
    /\ svc.caller = "updater" /\ svc.pc = "f_done" /\ svc' # svc =>
          svc'.pc = "u_wait"

\* C32: the updater makes its first refresh attempt at the next occurrence
\* of 6 AM after the start, whatever the readers do, then exactly one attempt
\* at every 24-hour tick; after a failed attempt the next tick is awaited and
\* makes the next attempt.
C32_UpdaterSchedule ==
    /\ [][UpdaterSchedule]_vars
    /\ [](svc.pc = "u_wait" /\ ticks < MaxTicks => ENABLED UpdaterTick)

\* the service started after 6 AM with rates two days old; the refresh of
\* Init and the first attempt of the updater, at 6 AM of the next day, failed,
\* and the attempt of the tick 24 hours later has its answer
C32_Witness ==
    /\ svc.caller = "updater" /\ svc.pc = "f_store" /\ ticks = 1
    /\ now = 4 * Day + AnchorHour + Day
    /\ exchange_rates = Stored(NoRates, Response(1, 4, 2), ZeroTime + Day)

\* the entries of the directory whose base currency is base
EntriesOf(base) == {k \in DOMAIN rates : k[1] = base}

GetAllReturns(r) ==
    rpc[r] = "r_read" /\ ask[r].op = "getAll" /\ rpc'[r] = "done"

\* C33: GetAllRates(base) returns a map that holds a target exactly when the
\* directory, as it is at the read, holds the pair (base, target), with the
\* rate of that pair: every entry of the base and no entry of another base.
C33_GetAllRates ==
    [][\A r \in Readers : GetAllReturns(r) =>
          /\ DOMAIN got'[r].rates = {k[2] : k \in EntriesOf(ask[r].base)}
          /\ \A k \in EntriesOf(ask[r].base) : got'[r].rates[k[2]] = rates[k]]_vars

\* a reader was given the three rates of one base from a directory that held
\* the rates of other bases too, among them a different rate to the same target
C33_Witness ==
    \E r \in Readers :
        /\ rpc[r] = "done" /\ ask[r].op = "getAll"
        /\ Cardinality(DOMAIN got[r].rates) = 3
        /\ EntriesOf(ask[r].base) # {}
        /\ \E k \in DOMAIN rates :
              /\ k[1] # ask[r].base
              /\ k[2] \in DOMAIN got[r].rates
              /\ rates[k] # got[r].rates[k[2]]

\* the row of the account's transaction that committed last: ids are given
\* under the write lock, in the order of the commits
LatestRow(table, id) ==
    CHOOSE t \in RowsOf(table, id) : \A u \in RowsOf(table, id) : u.id <= t.id

\* the balance column of the account's type holds the balance_after of the
\* account's latest transaction
BalanceIsLatest(table, rows, id) ==
    BalanceOf(table[id]) = LatestRow(rows, id).balance_after

\* AccountHandler.Update writes the row of the account
DirectEdit(id) ==
    \E p \in Procs : pc[p] = "u_exec" /\ StepOf(p) /\ req[p].account_id = id

\* C34: the commit of a transaction of an account leaves the account's
\* balance column equal to the balance_after of that transaction, also when
\* the account was edited or another request committed in between; and every
\* later step keeps the balance equal to the balance_after of the latest
\* transaction, up to a direct edit of the account.  So the two are equal in
\* every state in which the account has a transaction and was not edited
\* since the latest one committed.
C34_BalanceIsLatest ==
    [][\A id \in AccountIds : accounts'[id] # NoRow =>
          /\ RowsOf(transactions', id) # RowsOf(transactions, id)
                => BalanceIsLatest(accounts', transactions', id)
          /\ ( /\ RowsOf(transactions, id) # {}
               /\ BalanceIsLatest(accounts, transactions, id)
               /\ ~DirectEdit(id) )
                => BalanceIsLatest(accounts', transactions', id)]_vars

\* two requests read the balance of one account before either wrote; both
\* committed, the second on top of the first, and the balance is the
\* balance_after of the second although it does not count the first
C34_Witness ==
    \E id \in AccountIds :
        /\ AllDone
        /\ \A p \in Procs : resp[p].status = 201
        /\ Cardinality(RowsOf(transactions, id)) = 2
        /\ accounts[id] # NoRow
        /\ BalanceIsLatest(accounts, transactions, id)
        /\ \A t \in RowsOf(transactions, id) :
              t.balance_after = LatestRow(transactions, id).balance_after
        /\ BalanceOf(accounts[id]) # BalanceOf(accounts0[id])

\* C35: in every state of the committed table, a row with a link points at a
\* row of the table that belongs to another account and points back at it.
C35_LinksIntact ==
    \A t \in transactions :
        t.linked_transaction_id # NullId =>
            \E u \in transactions :
                /\ u.id = t.linked_transaction_id
                /\ u.account_id # t.account_id
                /\ u.linked_transaction_id = t.id

\* a transfer committed, and the deletion of one of its two accounts was
\* then refused: both legs are in the table
C35_Witness ==
    \E p \in Procs : \E q \in Procs :
        /\ req[p].op = "transfer" /\ resp[p].status = 201
        /\ req[q].op = "delete" /\ resp[q].status = 500
        /\ req[q].account_id \in {req[p].from_account_id, req[p].to_account_id}
        /\ req[q].user_id = req[p].user_id
        /\ \E t \in transactions : t.linked_transaction_id # NullId

\* the accounts of transfer p
AccountsOf(p) == {req[p].from_account_id, req[p].to_account_id}

\* request q deletes an account of transfer p
DeletesAccountOf(q, p) ==
    /\ req[p].op = "transfer" /\ req[q].op = "delete"
    /\ req[q].account_id \in AccountsOf(p)

\* the transfer commits while both its accounts are in the table, and the
\* commit adds both legs and writes both accounts
CommitsEntirely(p) ==
    TransferCommitted(p) =>
        /\ \A id \in AccountsOf(p) : accounts'[id] # NoRow
        /\ \E s \in RowsOf(transactions', req[p].from_account_id) :
           \E d \in RowsOf(transactions', req[p].to_account_id) :
              /\ {s, d} \cap transactions = {}
              /\ s.linked_transaction_id = d.id
              /\ d.linked_transaction_id = s.id
              /\ BalanceOf(accounts'[req[p].from_account_id]) = s.balance_after
              /\ BalanceOf(accounts'[req[p].to_account_id]) = d.balance_after

\* the transfer has failed and the only other request was the deletion: no
\* row is in the table and every account that is left is as it was
FailsWithoutTrace(p, q) ==
    (pc[p] = "done" /\ resp[p].status # 201 /\ DeletesAccountOf(q, p)) =>
        /\ transactions = {}
        /\ \A id \in AccountIds : accounts[id] # NoRow => accounts[id] = accounts0[id]

\* C36: when a transfer runs together with the deletion of its source or
\* destination account, the transfer either commits both legs and both
\* balances while both accounts still exist, or fails and leaves no row and
\* no change on the account that is left.
C36_NoPartialTransfer ==
    /\ [][\A p \in Procs : CommitsEntirely(p)]_vars
    /\ [](\A p \in Procs : \A q \in Procs : FailsWithoutTrace(p, q))

\* the destination was deleted after the transfer had read it: the transfer
\* began its db transaction, failed and was rolled back
C36_Witness ==
    \E p \in Procs : \E q \in Procs :
        /\ DeletesAccountOf(q, p)
        /\ resp[q].status = 200
        /\ pc[p] = "done" /\ resp[p].status = 500 /\ begun[p] = 1
        /\ accounts[req[q].account_id] = NoRow
        /\ accounts0[req[q].account_id] # NoRow

\* the commit of a transfer between two accounts of one currency
SameCurrencyCommit(p) ==
    TransferCommitted(p) /\ loc[p].fromAccount.currency = loc[p].toAccount.currency

\* measured from the balances the transfer read: into an asset account the
\* sum of the two balances stays; into a credit card or a loan the balance
\* of the source and the amount owed both fall by the amount
ConservesValue(p) ==
    LET from0 == loc[p].fromAccount
        to0 == loc[p].toAccount
        from1 == accounts'[req[p].from_account_id]
        to1 == accounts'[req[p].to_account_id]
    IN  /\ to0.type \in AssetTypes =>
              BalanceOf(from1) + BalanceOf(to1) = BalanceOf(from0) + BalanceOf(to0)
        /\ to0.type \in {"credit_card", "loan"} =>
              /\ BalanceOf(from0) - BalanceOf(from1) = req[p].amount
              /\ BalanceOf(to0) - BalanceOf(to1) = req[p].amount

\* no other request wrote the two accounts since the transfer read them
ReadsAreCurrent(p) ==
    /\ accounts[req[p].from_account_id] = loc[p].fromAccount
    /\ accounts[req[p].to_account_id] = loc[p].toAccount

\* C37: a transfer between accounts of one currency that commits conserves
\* value.  From the balances it read, the sum of the two balances is
\* unchanged for an asset destination, and the source's balance and the
\* destination's owed amount fall by the same amount for a credit card or a
\* loan; and the commit leaves the user's total assets minus total
\* liabilities, as Overview adds them up, unchanged when the two rows are
\* still as the transfer read them.
C37_ConservesValue ==
    [][\A p \in Procs : SameCurrencyCommit(p) =>
          /\ ConservesValue(p)
          /\ ReadsAreCurrent(p) =>
                Overview(accounts', req[p].user_id).net_worth
                    = Overview(accounts, req[p].user_id).net_worth]_vars

\* a transfer of 1 from the debit account to the loan committed: assets 3
\* instead of 4, liabilities 5 instead of 6, and the same net worth
C37_Witness ==
    \E p \in Procs :
        /\ req[p].op = "transfer" /\ resp[p].status = 201
        /\ Type0(req[p].to_account_id) = "loan"
        /\ Overview(accounts, req[p].user_id).total_assets
              = Overview(accounts0, req[p].user_id).total_assets - 1
        /\ Overview(accounts, req[p].user_id).total_liabilities
              = Overview(accounts0, req[p].user_id).total_liabilities - 1
        /\ Overview(accounts, req[p].user_id).net_worth
              = Overview(accounts0, req[p].user_id).net_worth

\* the accounts a created transaction or a transfer names
Named(request) ==
    IF request.op = "create" THEN {request.account_id}
    ELSE {request.from_account_id, request.to_account_id}

\* the balance field the README's table of account types gives each type
BalanceField(accountType) ==
    CASE accountType \in {"cash", "debit", "saving", "investment"} -> "current_balance"
      [] accountType = "credit_card" -> "credit_owed"
      [] accountType = "loan" -> "loan_current_owed"

\* the columns other than the balance field of the row's type and the time
\* of the last write
OtherColumns(row) == DOMAIN row \ {BalanceField(row.type), "updated_at"}

\* a step of a created transaction or of a transfer leaves every account it
\* does not name as it is, and removes, adds or changes no column of a named
\* account other than the balance column of its type (and updated_at)
OnlyBalanceColumn(p) ==
    (StepOf(p) /\ req'[p].op \in {"create", "transfer"}) =>
        \A id \in AccountIds :
            /\ id \notin Named(req'[p]) => accounts'[id] = accounts[id]
            /\ (accounts'[id] = NoRow) = (accounts[id] = NoRow)
            /\ accounts[id] # NoRow =>
                  \A c \in OtherColumns(accounts[id]) :
                      accounts'[id][c] = accounts[id][c]

\* C38: create-transaction and transfer change, of every account they name,
\* only the balance column of the account's type -- current_balance of an
\* asset account, credit_owed of a credit card, loan_current_owed of a loan
\* -- besides updated_at; the other balance columns, the type, the currency
\* and the owner stay, and so does every other account.
C38_OnlyBalanceColumn == [][\A p \in Procs : OnlyBalanceColumn(p)]_vars

\* a transfer into the credit card and a payment on it have committed: what
\* is owed on the card has changed, its current_balance has not, and the
\* account outside the two requests is as it was
C38_Witness ==
    \E p \in Procs : \E q \in Procs : \E id \in AccountIds :
        /\ req[p].op = "transfer" /\ resp[p].status = 201
        /\ req[q].op = "create" /\ resp[q].status = 201
        /\ req[p].to_account_id = id /\ req[q].account_id = id
        /\ Type0(id) = "credit_card"
        /\ accounts[id].credit_owed # accounts0[id].credit_owed
        /\ accounts[id].current_balance = accounts0[id].current_balance
        /\ accounts[req[p].from_account_id].current_balance
              # accounts0[req[p].from_account_id].current_balance
        /\ \E other \in AccountIds \ Named(req[p]) :
              accounts[other] # NoRow /\ accounts[other] = accounts0[other]

\* the db transaction of a refresh commits
RefreshCommits == svc.pc = "f_store" /\ svc'.pc = "l_lock"

\* C39: the table a refresh commits holds the rate 1 from every supported
\* currency to itself, written by this refresh, whatever the provider
\* returned for the base currency and whether or not it returned the
\* currency at all; and so does the directory once the refresh has loaded
\* the table.
C39_IdentityRates ==
    [][/\ RefreshCommits =>
             \A X \in Supported :
                 /\ <<X, X>> \in DOMAIN exchange_rates'
                 /\ exchange_rates'[<<X, X>>].rate = One
                 /\ exchange_rates'[<<X, X>>].updated_at = now
       /\ RefreshLoaded =>
             \A X \in Supported :
                 <<X, X>> \in DOMAIN rates' /\ rates'[<<X, X>>] = One]_vars

\* a refresh that was given USD against itself as 2, and no rate for DOP,
\* has committed: USD -> USD and DOP -> DOP are stored as 1
C39_Witness ==
    /\ svc.pc = "l_lock" /\ svc.ret = "f_done"
    /\ svc.data["USD"] = 2
    /\ "DOP" \notin DOMAIN svc.data
    /\ exchange_rates[<<"USD", "USD">>] = [id |-> exchange_rates[<<"USD", "USD">>].id,
                                           rate |-> One, updated_at |-> now]
    /\ exchange_rates[<<"DOP", "DOP">>].rate = One

====
